---------------------------- MODULE Spec2Model ----------------------------
(***************************************************************************)
(* A model of the pySlip widget core (src/pyslip/pyslip.py): the layer     *)
(* store, the viewport (level, view size, view offset, visible geo         *)
(* limits), the tile layout computed by Draw, the mouse handlers that move *)
(* the viewport, and the placement functions.                              *)
(*                                                                         *)
(* Arithmetic is Python 2 integer arithmetic: "/" on ints is floor         *)
(* division (\div), int() truncates towards zero.                          *)
(***************************************************************************)
EXTENDS Integers, Sequences, FiniteSets, TLC

VARIABLES
    tile_size_x, tile_size_y,       \* self.tile_size_x / self.tile_size_y
    level,                          \* self.level
    view_width, view_height,        \* self.view_width / self.view_height
    map_width, map_height,          \* self.map_width / self.map_height
    view_offset_x, view_offset_y,   \* self.view_offset_x / self.view_offset_y
    max_x_offset, max_y_offset,     \* self.max_x_offset / self.max_y_offset
    view_llon, view_rlon,           \* self.view_llon / self.view_rlon
    view_tlat, view_blat,           \* self.view_tlat / self.view_blat
    was_dragging,                   \* self.was_dragging
    last_drag,                      \* (self.last_drag_x, self.last_drag_y), <<>> is None
    ignore_next_up,                 \* self.ignore_next_up
    is_box_select,                  \* self.is_box_select
    sbox_1,                         \* (self.sbox_1_x, self.sbox_1_y), <<>> is None
    sbox_wh,                        \* (self.sbox_w, self.sbox_h), <<>> is unset
    shift_down,                     \* self.shift_down
    next_layer_id,                  \* self.next_layer_id
    layer_z_order,                  \* self.layer_z_order
    layer_mapping,                  \* self.layer_mapping
    drawn,                          \* tile layout of the last Draw
    added_ids,                      \* history: ids returned by AddLayer, in call order
    deleted_ids,                    \* history: ids DeleteLayer has removed
    last_op,                        \* history: the last call, its arguments and outcome
    place_in, place_out             \* arguments and result of the last placement call

view_vars == <<level, view_width, view_height, map_width, map_height,
               view_offset_x, view_offset_y, max_x_offset, max_y_offset,
               view_llon, view_rlon, view_tlat, view_blat>>

mouse_vars == <<was_dragging, last_drag, ignore_next_up, is_box_select,
                sbox_1, sbox_wh, shift_down>>

layer_vars == <<next_layer_id, layer_z_order, layer_mapping, added_ids,
                deleted_ids>>

place_vars == <<place_in, place_out>>

vars == <<tile_size_x, tile_size_y, view_vars, mouse_vars, layer_vars,
          drawn, last_op, place_vars>>

None == <<>>

(***************************************************************************)
(* Bounds of the model.                                                    *)
(***************************************************************************)
\* highest tile level of the tile source
MaxLevel == 2
\* AddLayer is called while next_layer_id <= MaxLayerId
MaxLayerId == 3

(***************************************************************************)
(* The tile source (self.tiles), an external collaborator: levels          *)
(* MinLevel..MaxLevel, the tile grid doubling at every level, and a linear *)
(* projection whose geo unit is one pixel of the deepest level; latitude   *)
(* grows upwards, so the Y geo coordinate is the negated pixel row.        *)
(***************************************************************************)
MinLevel == 1

Levels == MinLevel..MaxLevel

RECURSIVE Pow2(_)
Pow2(n) == IF n <= 0 THEN 1 ELSE 2 * Pow2(n - 1)

\* self.tiles.num_tiles_x / num_tiles_y after UseLevel(l)
NumTilesX(l) == Pow2(l - MinLevel)
NumTilesY(l) == Pow2(l - MinLevel)

\* geo units per pixel at level l
Scale(l) == Pow2(MaxLevel - l)

\* int(): truncation towards zero of n / d, d > 0
Trunc(n, d) == IF n >= 0 THEN n \div d ELSE -((-n) \div d)

\* self.tiles.Tile2Geo((px / tile_size_x, py / tile_size_y)) at level l,
\* the fractional tile coordinates given as map pixels px, py
Tile2Geo(px, py, l) == <<px * Scale(l), -(py * Scale(l))>>

\* int(xtile * tile_size_x), int(ytile * tile_size_y) for
\* (xtile, ytile) = self.tiles.Geo2Tile(geo) at level l: map pixels of geo
Geo2TilePixels(geo, l) == <<Trunc(geo[1], Scale(l)), Trunc(-geo[2], Scale(l))>>

(***************************************************************************)
(* Inputs of the environment.                                              *)
(***************************************************************************)
\* client sizes GetClientSizeTuple() may return
ClientSizes == {<<2, 4>>, <<3, 2>>, <<4, 3>>}

\* tile sizes of the tile source
TileSizes == {<<2, 2>>, <<2, 3>>}

\* mouse positions in view coordinates
MousePts == {<<0, 0>>, <<2, 1>>}

\* geo positions handed to GotoPosition: corners and centre of the map
GeoPts(tsx, tsy) ==
    LET gw == NumTilesX(MaxLevel) * tsx
        gh == NumTilesY(MaxLevel) * tsy
    IN  {<<0, 0>>, <<gw \div 2, -(gh \div 2)>>, <<gw, -gh>>}

(***************************************************************************)
(* The viewport as a record, so that handlers compose.                     *)
(***************************************************************************)
VP == [level |-> level,
       view_width |-> view_width, view_height |-> view_height,
       map_width |-> map_width, map_height |-> map_height,
       view_offset_x |-> view_offset_x, view_offset_y |-> view_offset_y,
       max_x_offset |-> max_x_offset, max_y_offset |-> max_y_offset,
       view_llon |-> view_llon, view_rlon |-> view_rlon,
       view_tlat |-> view_tlat, view_blat |-> view_blat]

SetVP(v) ==
    /\ level' = v.level
    /\ view_width' = v.view_width
    /\ view_height' = v.view_height
    /\ map_width' = v.map_width
    /\ map_height' = v.map_height
    /\ view_offset_x' = v.view_offset_x
    /\ view_offset_y' = v.view_offset_y
    /\ max_x_offset' = v.max_x_offset
    /\ max_y_offset' = v.max_y_offset
    /\ view_llon' = v.view_llon
    /\ view_rlon' = v.view_rlon
    /\ view_tlat' = v.view_tlat
    /\ view_blat' = v.view_blat


(***************************************************************************)
(* PySlip.RecalcViewLimits: geo coordinates of the top-left and of the     *)
(* bottom-right corner of the view.                                        *)
(***************************************************************************)
RecalcViewLimits(v) ==
    LET tl == Tile2Geo(v.view_offset_x, v.view_offset_y, v.level)
        br == Tile2Geo(v.view_offset_x + v.view_width,
                       v.view_offset_y + v.view_height, v.level)
    IN  [v EXCEPT !.view_llon = tl[1], !.view_tlat = tl[2],
                  !.view_rlon = br[1], !.view_blat = br[2]]

(***************************************************************************)
(* PySlip.ResizeCallback: take the client size, clamp or centre the view   *)
(* offset on each axis, recompute the view limits.                         *)
(***************************************************************************)
ResizeAxis(offset, map, view) ==
    IF map > view
    THEN IF offset < 0 THEN 0
         ELSE IF offset + view > map THEN map - view
         ELSE offset
    ELSE (map - view) \div 2

ResizeCallback(v, cw, ch) ==
    RecalcViewLimits(
        [v EXCEPT !.view_width = cw, !.view_height = ch,
                  !.max_x_offset = v.map_width - cw,
                  !.max_y_offset = v.map_height - ch,
                  !.view_offset_x = ResizeAxis(v.view_offset_x, v.map_width, cw),
                  !.view_offset_y = ResizeAxis(v.view_offset_y, v.map_height, ch)])

(***************************************************************************)
(* _BufferedCanvas.OnSize: store the client size (at least 1 x 1), then    *)
(* call the registered callback, which is ResizeCallback.                  *)
(***************************************************************************)
OnSizeVP(v, cw, ch) ==
    ResizeCallback([v EXCEPT !.view_width = IF cw = 0 THEN 1 ELSE cw,
                             !.view_height = IF ch = 0 THEN 1 ELSE ch],
                   cw, ch)

(***************************************************************************)
(* PySlip.ZoomToLevel: [ok, vp].  The client size read by OnSize is the    *)
(* size of the view, stored by the last size event.                        *)
(***************************************************************************)
LevelOK_NoMin(lvl) == lvl <= MaxLevel

LevelOK(lvl) == MinLevel <= lvl /\ lvl <= MaxLevel

\* PySlip.ZoomToLevel taking the level and leaving the map size as it was
ZoomToLevelVP_old_map(v, lvl, tsx, tsy) ==
    IF LevelOK(lvl)
    THEN [ok |-> TRUE,
          vp |-> OnSizeVP([v EXCEPT !.level = lvl], v.view_width, v.view_height)]
    ELSE [ok |-> FALSE, vp |-> v]

ZoomToLevelVP(v, lvl, tsx, tsy) ==
    IF LevelOK(lvl)
    THEN [ok |-> TRUE,
          vp |-> OnSizeVP([v EXCEPT !.level = lvl,
                                    !.map_width = NumTilesX(lvl) * tsx,
                                    !.map_height = NumTilesY(lvl) * tsy],
                          v.view_width, v.view_height)]
    ELSE [ok |-> FALSE, vp |-> v]

(***************************************************************************)
(* PySlip.GotoPosition: centre the view on a geo position.                 *)
(***************************************************************************)
GotoPositionVP(v, geo) ==
    LET c == Geo2TilePixels(geo, v.level)
    IN  RecalcViewLimits(
            [v EXCEPT !.view_offset_x = c[1] - (v.view_width \div 2),
                      !.view_offset_y = c[2] - (v.view_height \div 2)])

\* PySlip.GotoLevelAndPosition
GotoLevelAndPositionVP(v, lvl, geo, tsx, tsy) ==
    LET z == ZoomToLevelVP(v, lvl, tsx, tsy)
    IN  IF z.ok THEN GotoPositionVP(z.vp, geo) ELSE v

\* the level PySlip.ZoomToArea chooses: the first level of the tile source,
\* smallest first, at which the area fills half of the view in width or in
\* height, else the last level; a level shows Scale(l) geo units per pixel
ZoomToAreaLevel(v, size) ==
    LET fills(l) == \/ 2 * size[1] >= v.view_width * Scale(l)
                    \/ 2 * size[2] >= v.view_height * Scale(l)
    IN  IF \E l \in Levels : fills(l)
        THEN CHOOSE l \in Levels : fills(l) /\ \A k \in Levels : fills(k) => l <= k
        ELSE MaxLevel

\* PySlip.ZoomIn and PySlip.ZoomOut (the same code)
ZoomInVP(v, gposn) ==
    ResizeCallback(GotoPositionVP(v, gposn), v.view_width, v.view_height)

\* PySlip.View2Geo
View2Geo(v, view) ==
    Tile2Geo(v.view_offset_x + view[1], v.view_offset_y + view[2], v.level)

(***************************************************************************)
(* PySlip.OnMove, the map drag: move the offset, limit it at the edges.    *)
(***************************************************************************)
DragAxis(offset, d, map, view, max_offset) ==
    LET o == offset + d
    IN  IF map > view
        THEN IF o < 0 THEN 0
             ELSE IF o > max_offset THEN max_offset
             ELSE o
        ELSE (map - view) \div 2

DragVP_NoRecalc(v, dx, dy) ==
    [v EXCEPT !.view_offset_x = DragAxis(v.view_offset_x, dx, v.map_width,
                                         v.view_width, v.max_x_offset),
              !.view_offset_y = DragAxis(v.view_offset_y, dy, v.map_height,
                                         v.view_height, v.max_y_offset)]

DragVP(v, dx, dy) ==
    RecalcViewLimits(
        [v EXCEPT !.view_offset_x = DragAxis(v.view_offset_x, dx, v.map_width,
                                             v.view_width, v.max_x_offset),
                  !.view_offset_y = DragAxis(v.view_offset_y, dy, v.map_height,
                                             v.view_height, v.max_y_offset)])

(***************************************************************************)
(* PySlip.Draw, the tile layout: the list of tile columns and rows and the *)
(* view pixel position of the first tile.                                  *)
(***************************************************************************)
\* range(a, b)
Range(a, b) == [i \in 1..(b - a) |-> a + i - 1]

Min(a, b) == IF a <= b THEN a ELSE b

Max(a, b) == IF a >= b THEN a ELSE b

\* the X axis; pix_size is the tile size the code multiplies start_x_tile by
DrawAxis(offset, view, size, pix_size, num_tiles) ==
    IF offset < 0
    THEN [list |-> Range(0, num_tiles), pix_start |-> -offset]
    ELSE LET start_tile == offset \div size
             stop_tile == (offset + view + size - 1) \div size
         IN  [list |-> Range(start_tile, Min(num_tiles - 1, stop_tile) + 1),
              pix_start |-> start_tile * pix_size - offset]

Draw(v, tsx, tsy) ==
    LET X == DrawAxis(v.view_offset_x, v.view_width, tsx, tsy, NumTilesX(v.level))
        Y == DrawAxis(v.view_offset_y, v.view_height, tsy, tsy, NumTilesY(v.level))
    IN  [col_list |-> X.list, x_pix_start |-> X.pix_start,
         row_list |-> Y.list, y_pix_start |-> Y.pix_start]


(***************************************************************************)
(* The layer store.  A layer is a record of the _Layer attributes the      *)
(* layer operations read or write.                                         *)
(***************************************************************************)
\* list.remove(x): the list without the first x
Remove(list, x) == SelectSeq(list, LAMBDA e : e # x)

\* list.index(x) counting the elements from 1
Index_from_one(list, x) == CHOOSE i \in 1..Len(list) : list[i] = x

\* list.index(x), 0-based, for x in the list
Index(list, x) == (CHOOSE i \in 1..Len(list) : list[i] = x) - 1

\* list.insert(i, x), i 0-based
Insert(list, i, x) == SubSeq(list, 1, i) \o <<x>> \o SubSeq(list, i + 1, Len(list))

InList(list, x) == \E i \in 1..Len(list) : list[i] = x

\* the show_levels values handed to AddLayer and SetLayerShowLevels
ShowLevelsInputs == {None, <<MinLevel>>}

\* range(self.min_level, self.max_level + 1)[:]
AllLevels == Range(MinLevel, MaxLevel + 1)

\* the ids handed to the layer operations: existing, deleted and unknown ones
LayerIds == 1..MaxLayerId

\* the id AddLayer gives the new layer
NewLayerId_Reuse == Len(layer_z_order) + 1

NewLayerId == next_layer_id

\* the layer_mapping DeleteLayer leaves: "del layer" unbinds the local name only
DeleteFromMapping(mapping, id) == mapping

Op(name, arg, ok, raised) == [op |-> name, arg |-> arg, ok |-> ok, raised |-> raised]

\* _BufferedCanvas.Update: redraw with the viewport v the handler leaves
Update(v) == drawn' = Draw(v, tile_size_x, tile_size_y)


(***************************************************************************)
(* PySlip.__init__: the state after construction.  ZoomToLevel(self.level) *)
(* and the forced OnSize() set up the viewport for the client size.        *)
(***************************************************************************)
InitVP(start_level, cw, ch, tsx, tsy) ==
    LET v0 == [level |-> start_level,
               view_width |-> cw, view_height |-> ch,
               map_width |-> 0, map_height |-> 0,
               view_offset_x |-> 0, view_offset_y |-> 0,
               max_x_offset |-> 0, max_y_offset |-> 0,
               view_llon |-> 0, view_rlon |-> 0,
               view_tlat |-> 0, view_blat |-> 0]
    IN  OnSizeVP(ZoomToLevelVP(v0, start_level, tsx, tsy).vp, cw, ch)

\* the tile sizes, the viewport and the mouse state of a widget constructed
\* in a window of one of the sizes
InitViewOf(sizes) ==
    /\ \E ts \in TileSizes : tile_size_x = ts[1] /\ tile_size_y = ts[2]
    /\ \E start_level \in Levels, c \in sizes :
         LET v == InitVP(start_level, c[1], c[2], tile_size_x, tile_size_y)
         IN  /\ level = v.level
             /\ view_width = v.view_width
             /\ view_height = v.view_height
             /\ map_width = v.map_width
             /\ map_height = v.map_height
             /\ view_offset_x = v.view_offset_x
             /\ view_offset_y = v.view_offset_y
             /\ max_x_offset = v.max_x_offset
             /\ max_y_offset = v.max_y_offset
             /\ view_llon = v.view_llon
             /\ view_rlon = v.view_rlon
             /\ view_tlat = v.view_tlat
             /\ view_blat = v.view_blat
             /\ drawn = Draw(v, tile_size_x, tile_size_y)
    /\ was_dragging = FALSE
    /\ last_drag = None
    /\ ignore_next_up = FALSE
    /\ is_box_select = FALSE
    /\ sbox_1 = None
    /\ sbox_wh = None
    /\ shift_down = FALSE

\* the widget constructed in a window of one of the sizes: no layers
InitWidgetOf(sizes) ==
    /\ InitViewOf(sizes)
    /\ next_layer_id = 1
    /\ layer_z_order = <<>>
    /\ layer_mapping = <<>>
    /\ added_ids = <<>>
    /\ deleted_ids = {}
    /\ last_op = Op("__init__", <<>>, TRUE, FALSE)

InitWidget == InitWidgetOf(ClientSizes)

\* no placement function is being called
Init ==
    /\ InitWidget
    /\ place_in = [fn |-> "none"]
    /\ place_out = None

(***************************************************************************)
(* Layer operations.                                                       *)
(***************************************************************************)
\* PySlip.AddLayer without the record of the call: the new layer is stored
\* under the next id and appended to the Z order
DoAddLayer(data, map_rel, visible, show_levels, selectable, type) ==
    /\ next_layer_id <= MaxLayerId
    /\ LET id == NewLayerId
           l == [data |-> data, map_rel |-> map_rel, type |-> type,
                 visible |-> visible,
                 show_levels |-> IF show_levels = None THEN AllLevels
                                 ELSE show_levels,
                 selectable |-> selectable]
       IN  /\ next_layer_id' = next_layer_id + 1
           /\ layer_mapping' = [i \in DOMAIN layer_mapping \cup {id} |->
                                   IF i = id THEN l ELSE layer_mapping[i]]
           /\ layer_z_order' = Append(layer_z_order, id)
           /\ added_ids' = Append(added_ids, id)
           /\ UNCHANGED deleted_ids
    /\ UNCHANGED <<place_vars, tile_size_x, tile_size_y, view_vars, mouse_vars>>
    /\ IF visible THEN Update(VP) ELSE UNCHANGED drawn

\* PySlip.AddLayer, called by the Add*Layer routines
AddLayer(data, map_rel, visible, show_levels, selectable, type) ==
    /\ DoAddLayer(data, map_rel, visible, show_levels, selectable, type)
    /\ last_op' = Op("AddLayer", <<NewLayerId>>, TRUE, FALSE)

\* PySlip.ShowLayer (visible = TRUE) and PySlip.HideLayer (visible = FALSE)
SetVisible(name, id, visible) ==
    /\ IF id \in DOMAIN layer_mapping
       THEN /\ layer_mapping' = [layer_mapping EXCEPT ![id].visible = visible]
            /\ last_op' = Op(name, <<id>>, TRUE, FALSE)
       ELSE \* KeyError
            /\ UNCHANGED layer_mapping
            /\ last_op' = Op(name, <<id>>, FALSE, TRUE)
    /\ UNCHANGED <<place_vars, tile_size_x, tile_size_y, view_vars, mouse_vars,
                   next_layer_id, layer_z_order, added_ids, deleted_ids>>
    /\ IF id \in DOMAIN layer_mapping THEN Update(VP) ELSE UNCHANGED drawn

ShowLayer(id) == SetVisible("ShowLayer", id, TRUE)

HideLayer(id) == SetVisible("HideLayer", id, FALSE)

\* PySlip.DeleteLayer
DeleteLayer(id) ==
    /\ IF id \notin DOMAIN layer_mapping \/ ~InList(layer_z_order, id)
       THEN \* KeyError from layer_mapping[id], ValueError from remove(id)
            /\ UNCHANGED <<layer_mapping, layer_z_order, drawn, deleted_ids>>
            /\ last_op' = Op("DeleteLayer", <<id>>, FALSE, TRUE)
       ELSE /\ layer_mapping' = DeleteFromMapping(layer_mapping, id)
            /\ layer_z_order' = Remove(layer_z_order, id)
            /\ deleted_ids' = deleted_ids \cup {id}
            /\ last_op' = Op("DeleteLayer", <<id>>, TRUE, FALSE)
            /\ IF layer_mapping[id].visible THEN Update(VP) ELSE UNCHANGED drawn
    /\ UNCHANGED <<place_vars, tile_size_x, tile_size_y, view_vars, mouse_vars,
                   next_layer_id, added_ids>>

\* PySlip.SetLayerShowLevels: the final "if visible:" reads a name that is
\* bound nowhere, so the call ends in a NameError after the assignment
SetLayerShowLevels(id, show_levels) ==
    /\ IF id \in DOMAIN layer_mapping
       THEN layer_mapping' =
                [layer_mapping EXCEPT ![id].show_levels =
                     IF show_levels = None THEN AllLevels ELSE show_levels]
       ELSE \* KeyError
            UNCHANGED layer_mapping
    /\ last_op' = [op |-> "SetLayerShowLevels", arg |-> <<id>>,
                    show_levels |-> show_levels, ok |-> FALSE, raised |-> TRUE]
    /\ UNCHANGED <<place_vars, tile_size_x, tile_size_y, view_vars, mouse_vars,
                   next_layer_id, layer_z_order, added_ids, deleted_ids, drawn>>

\* PySlip.SetLayerSelectable
SetLayerSelectable(id, selectable) ==
    /\ IF id \in DOMAIN layer_mapping
       THEN /\ layer_mapping' = [layer_mapping EXCEPT ![id].selectable = selectable]
            /\ last_op' = Op("SetLayerSelectable", <<id>>, TRUE, FALSE)
       ELSE \* KeyError
            /\ UNCHANGED layer_mapping
            /\ last_op' = Op("SetLayerSelectable", <<id>>, FALSE, TRUE)
    /\ UNCHANGED <<place_vars, tile_size_x, tile_size_y, view_vars, mouse_vars,
                   next_layer_id, layer_z_order, added_ids, deleted_ids, drawn>>

\* PySlip.PushLayerToBack
PushLayerToBack(id) ==
    /\ IF InList(layer_z_order, id)
       THEN /\ layer_z_order' = Insert(Remove(layer_z_order, id), 0, id)
            /\ last_op' = Op("PushLayerToBack", <<id>>, TRUE, FALSE)
            /\ Update(VP)
       ELSE \* ValueError from remove(id)
            /\ UNCHANGED <<layer_z_order, drawn>>
            /\ last_op' = Op("PushLayerToBack", <<id>>, FALSE, TRUE)
    /\ UNCHANGED <<place_vars, tile_size_x, tile_size_y, view_vars, mouse_vars,
                   next_layer_id, layer_mapping, added_ids, deleted_ids>>

\* PySlip.PopLayerToFront
PopLayerToFront(id) ==
    /\ IF InList(layer_z_order, id)
       THEN /\ layer_z_order' = Append(Remove(layer_z_order, id), id)
            /\ last_op' = Op("PopLayerToFront", <<id>>, TRUE, FALSE)
            /\ Update(VP)
       ELSE \* ValueError from remove(id)
            /\ UNCHANGED <<layer_z_order, drawn>>
            /\ last_op' = Op("PopLayerToFront", <<id>>, FALSE, TRUE)
    /\ UNCHANGED <<place_vars, tile_size_x, tile_size_y, view_vars, mouse_vars,
                   next_layer_id, layer_mapping, added_ids, deleted_ids>>

\* PySlip.PlaceLayerBelowLayer
PlaceLayerBelowLayer(id, top_id) ==
    /\ IF ~InList(layer_z_order, id)
       THEN \* ValueError from remove(id)
            /\ UNCHANGED <<layer_z_order, drawn>>
            /\ last_op' = Op("PlaceLayerBelowLayer", <<id, top_id>>, FALSE, TRUE)
       ELSE LET removed == Remove(layer_z_order, id)
            IN  IF ~InList(removed, top_id)
                THEN \* ValueError from index(top_id), after remove(id)
                     /\ layer_z_order' = removed
                     /\ UNCHANGED drawn
                     /\ last_op' = Op("PlaceLayerBelowLayer", <<id, top_id>>,
                                      FALSE, TRUE)
                ELSE /\ layer_z_order' = Insert(removed, Index(removed, top_id), id)
                     /\ last_op' = Op("PlaceLayerBelowLayer", <<id, top_id>>,
                                      TRUE, FALSE)
                     /\ Update(VP)
    /\ UNCHANGED <<place_vars, tile_size_x, tile_size_y, view_vars, mouse_vars,
                   next_layer_id, layer_mapping, added_ids, deleted_ids>>

\* adding, showing, hiding, deleting and reordering layers
NextLayers ==
    \/ \E visible \in BOOLEAN : AddLayer(<<>>, TRUE, visible, None, FALSE, "point")
    \/ \E id \in LayerIds : ShowLayer(id)
    \/ \E id \in LayerIds : HideLayer(id)
    \/ \E id \in LayerIds : DeleteLayer(id)
    \/ \E id \in LayerIds : PushLayerToBack(id)
    \/ \E id \in LayerIds : PopLayerToFront(id)
    \/ \E id, top_id \in LayerIds : PlaceLayerBelowLayer(id, top_id)

\* the layer operations that set a layer's attributes
NextLayerAttrs ==
    \/ \E visible \in BOOLEAN, show_levels \in ShowLevelsInputs,
          selectable \in BOOLEAN :
             AddLayer(<<>>, TRUE, visible, show_levels, selectable, "point")
    \/ \E id \in LayerIds, show_levels \in ShowLevelsInputs :
          SetLayerShowLevels(id, show_levels)
    \/ \E id \in LayerIds, selectable \in BOOLEAN : SetLayerSelectable(id, selectable)

\* one construction: the first level, a view smaller than the next level's map
InitLayers ==
    /\ Init
    /\ level = MinLevel
    /\ <<view_width, view_height>> = <<3, 2>>
    /\ <<tile_size_x, tile_size_y>> = <<2, 3>>

SpecLayers == InitLayers /\ [][NextLayers]_vars

SpecLayerAttrs == InitLayers /\ [][NextLayerAttrs]_vars


(***************************************************************************)
(* The "add a layer" routines.  A placement value is a string; the strings *)
(* "<None>" and "<False>" stand for the Python values None and False.      *)
(***************************************************************************)
\* PySlip.valid_placements
valid_placements == {"cc", "nw", "cn", "ne", "ce", "se", "cs", "sw", "cw",
                     "<None>", "<False>", ""}

\* the placement values that have a lower() method
IsString(placement) == placement \notin {"<None>", "<False>"}

\* placement.lower() for the strings handed in
Lower(placement) ==
    CASE placement = "CC" -> "cc"
      [] placement = "NW" -> "nw"
      [] OTHER -> placement

\* the check of one record with every string passing
PlacementRaises_any_string(placement) == ~IsString(placement)

\* "placement = placement.lower()" raises AttributeError, or the lower-case
\* value is not in valid_placements and the routine raises Exception
PlacementRaises(placement) ==
    \/ ~IsString(placement)
    \/ Lower(placement) \notin valid_placements

\* the placements of the records, as handed in
PlacementsOf(records) == [i \in DOMAIN records |-> records[i].placement]

\* the draw_data built from the records handed in
DrawData(records) ==
    [i \in DOMAIN records |->
        [records[i] EXCEPT !.placement = Lower(records[i].placement)]]

\* a record handed to an Add*Layer routine
Rec(placement) == [x |-> 1, y |-> 1, placement |-> placement]

\* the record lists handed to the Add*Layer routines
AddInputs == {<<Rec("nw")>>, <<Rec("CC"), Rec("se")>>, <<Rec("")>>,
              <<Rec("xx")>>, <<Rec("nw"), Rec("xx")>>, <<Rec("<None>")>>}

\* AddPointLayer, AddImageLayer, AddTextLayer, AddPolygonLayer: every record
\* is checked while draw_data is built, then AddLayer is called
AddDataLayer(name, type, records, map_rel, visible) ==
    IF \E i \in DOMAIN records : PlacementRaises(records[i].placement)
    THEN /\ last_op' = Op(name, <<0, PlacementsOf(records)>>, FALSE, TRUE)
         /\ UNCHANGED <<place_vars, tile_size_x, tile_size_y, view_vars,
                        mouse_vars, layer_vars, drawn>>
    ELSE /\ DoAddLayer(DrawData(records), map_rel, visible, None, FALSE, type)
         /\ last_op' = Op(name, <<NewLayerId, PlacementsOf(records)>>, TRUE, FALSE)

\* PySlip.AddPointLayer
AddPointLayer(points, map_rel, visible) ==
    AddDataLayer("AddPointLayer", "point", points, map_rel, visible)

\* PySlip.AddImageLayer
AddImageLayer(data, map_rel, visible) ==
    AddDataLayer("AddImageLayer", "image", data, map_rel, visible)

\* PySlip.AddTextLayer
AddTextLayer(text, map_rel, visible) ==
    AddDataLayer("AddTextLayer", "text", text, map_rel, visible)

\* PySlip.AddPolygonLayer
AddPolygonLayer(data, map_rel, visible) ==
    AddDataLayer("AddPolygonLayer", "poly", data, map_rel, visible)

\* layers of the four kinds are added, map-relative and visible
NextAdd ==
    \/ \E records \in AddInputs : AddPointLayer(records, TRUE, TRUE)
    \/ \E records \in AddInputs : AddImageLayer(records, TRUE, TRUE)
    \/ \E records \in AddInputs : AddTextLayer(records, TRUE, TRUE)
    \/ \E records \in AddInputs : AddPolygonLayer(records, TRUE, TRUE)

SpecAdd == InitLayers /\ [][NextAdd]_vars


(***************************************************************************)
(* Viewport operations and the mouse handlers.                             *)
(***************************************************************************)
\* a size event: _BufferedCanvas.OnSize with a new client size
OnSize(cw, ch) ==
    LET v == OnSizeVP(VP, cw, ch)
    IN  /\ SetVP(v)
        /\ Update(v)
        /\ last_op' = Op("OnSize", <<>>, TRUE, FALSE)
        /\ UNCHANGED <<place_vars, tile_size_x, tile_size_y, mouse_vars, layer_vars>>

\* PySlip.ZoomToLevel
ZoomToLevel(lvl) ==
    LET z == ZoomToLevelVP(VP, lvl, tile_size_x, tile_size_y)
    IN  /\ SetVP(z.vp)
        /\ IF z.ok THEN Update(z.vp) ELSE UNCHANGED drawn
        /\ last_op' = Op("ZoomToLevel", <<lvl>>, z.ok, FALSE)
        /\ UNCHANGED <<place_vars, tile_size_x, tile_size_y, mouse_vars, layer_vars>>

\* PySlip.GotoPosition
GotoPosition(geo) ==
    LET v == GotoPositionVP(VP, geo)
    IN  /\ SetVP(v)
        /\ Update(v)
        /\ last_op' = Op("GotoPosition", <<>>, TRUE, FALSE)
        /\ UNCHANGED <<place_vars, tile_size_x, tile_size_y, mouse_vars, layer_vars>>

\* PySlip.GotoLevelAndPosition
GotoLevelAndPosition(lvl, geo) ==
    LET v == GotoLevelAndPositionVP(VP, lvl, geo, tile_size_x, tile_size_y)
    IN  /\ SetVP(v)
        /\ IF LevelOK(lvl) THEN Update(v) ELSE UNCHANGED drawn
        /\ last_op' = Op("GotoLevelAndPosition", <<lvl>>, LevelOK(lvl), FALSE)
        /\ UNCHANGED <<place_vars, tile_size_x, tile_size_y, mouse_vars, layer_vars>>

\* PySlip.ZoomToArea
ZoomToArea(geo, size) ==
    LET lvl == ZoomToAreaLevel(VP, size)
        v == GotoLevelAndPositionVP(VP, lvl, geo, tile_size_x, tile_size_y)
    IN  /\ SetVP(v)
        /\ IF LevelOK(lvl) THEN Update(v) ELSE UNCHANGED drawn
        /\ last_op' = Op("ZoomToArea", <<lvl>>, LevelOK(lvl), FALSE)
        /\ UNCHANGED <<place_vars, tile_size_x, tile_size_y, mouse_vars, layer_vars>>

\* PySlip.OnKeyDown and PySlip.OnKeyUp for the SHIFT key
OnKeyDown ==
    /\ shift_down' = TRUE
    /\ last_op' = Op("OnKeyDown", <<>>, TRUE, FALSE)
    /\ UNCHANGED <<place_vars, tile_size_x, tile_size_y, view_vars, layer_vars, drawn,
                   was_dragging, last_drag, ignore_next_up, is_box_select,
                   sbox_1, sbox_wh>>

OnKeyUp ==
    /\ shift_down' = FALSE
    /\ last_op' = Op("OnKeyUp", <<>>, TRUE, FALSE)
    /\ UNCHANGED <<place_vars, tile_size_x, tile_size_y, view_vars, layer_vars, drawn,
                   was_dragging, last_drag, ignore_next_up, is_box_select,
                   sbox_1, sbox_wh>>

\* PySlip.OnLeftDown
OnLeftDown(pos) ==
    /\ IF shift_down
       THEN /\ is_box_select' = TRUE
            /\ sbox_wh' = <<0, 0>>
            /\ sbox_1' = pos
            /\ UNCHANGED last_drag
       ELSE /\ is_box_select' = FALSE
            /\ last_drag' = pos
            /\ UNCHANGED <<sbox_1, sbox_wh>>
    /\ last_op' = Op("OnLeftDown", <<>>, TRUE, FALSE)
    /\ UNCHANGED <<place_vars, tile_size_x, tile_size_y, view_vars, layer_vars, drawn,
                   was_dragging, ignore_next_up, shift_down>>

\* PySlip.OnMove; dragging is event.Dragging() and event.LeftIsDown()
OnMove(pos, dragging) ==
    /\ IF dragging /\ is_box_select
       THEN \* the selection box follows the mouse
            /\ sbox_wh' = <<pos[1] - sbox_1[1], pos[2] - sbox_1[2]>>
            /\ UNCHANGED <<view_vars, was_dragging, last_drag>>
            /\ Update(VP)
       ELSE IF dragging /\ last_drag # None
       THEN \* a map drag
            LET v == DragVP(VP, last_drag[1] - pos[1], last_drag[2] - pos[2])
            IN  /\ was_dragging' = TRUE
                /\ SetVP(v)
                /\ last_drag' = pos
                /\ UNCHANGED sbox_wh
                /\ Update(v)
       ELSE /\ UNCHANGED <<view_vars, was_dragging, last_drag, sbox_wh>>
            /\ IF dragging THEN Update(VP) ELSE UNCHANGED drawn
    /\ last_op' = Op("OnMove", <<>>, dragging, FALSE)
    /\ UNCHANGED <<place_vars, tile_size_x, tile_size_y, layer_vars, ignore_next_up,
                   is_box_select, sbox_1, shift_down>>

\* the viewport after a zoom by one level that keeps gposn in the centre:
\* "if self.ZoomToLevel(level): self.ZoomIn(gposn)" of OnLeftDClick, OnMouseWheel
ZoomStepVP(v, lvl, gposn, tsx, tsy) ==
    LET z == ZoomToLevelVP(v, lvl, tsx, tsy)
    IN  IF z.ok THEN ZoomInVP(z.vp, gposn) ELSE v

\* PySlip.OnLeftDClick
OnLeftDClick(pos) ==
    LET lvl == IF shift_down THEN level - 1 ELSE level + 1
        v == ZoomStepVP(VP, lvl, View2Geo(VP, pos), tile_size_x, tile_size_y)
    IN  /\ ignore_next_up' = TRUE
        /\ SetVP(v)
        /\ IF LevelOK(lvl) THEN Update(v) ELSE UNCHANGED drawn
        /\ last_op' = Op("OnLeftDClick", <<>>, LevelOK(lvl), FALSE)
        /\ UNCHANGED <<place_vars, tile_size_x, tile_size_y, layer_vars, was_dragging,
                       last_drag, is_box_select, sbox_1, sbox_wh, shift_down>>

\* PySlip.OnMouseWheel; up is event.GetWheelRotation() > 0
OnMouseWheel(up) ==
    LET lvl == IF up THEN level + 1 ELSE level - 1
        centre == <<view_width \div 2, view_height \div 2>>
        v == ZoomStepVP(VP, lvl, View2Geo(VP, centre), tile_size_x, tile_size_y)
    IN  /\ SetVP(v)
        /\ IF LevelOK(lvl) THEN Update(v) ELSE UNCHANGED drawn
        /\ last_op' = Op("OnMouseWheel", <<lvl>>, LevelOK(lvl), FALSE)
        /\ UNCHANGED <<place_vars, tile_size_x, tile_size_y, layer_vars, mouse_vars>>

\* the levels handed to ZoomToLevel: every level and one beyond each end
LevelInputs == (MinLevel - 1)..(MaxLevel + 1)

\* the sizes, in geo units, of the areas handed to ZoomToArea
AreaSizes == {<<1, 1>>, <<2, 4>>, <<16, 16>>}

\* the operations that change the level, the double-click with SHIFT up or down
NextZoom ==
    \/ \E lvl \in LevelInputs : ZoomToLevel(lvl)
    \/ \E lvl \in LevelInputs, geo \in GeoPts(tile_size_x, tile_size_y) :
          GotoLevelAndPosition(lvl, geo)
    \/ \E geo \in GeoPts(tile_size_x, tile_size_y), size \in AreaSizes :
          ZoomToArea(geo, size)
    \/ \E pos \in MousePts : OnLeftDClick(pos)
    \/ \E up \in BOOLEAN : OnMouseWheel(up)
    \/ OnKeyDown
    \/ OnKeyUp

SpecZoom == Init /\ [][NextZoom]_vars


(***************************************************************************)
(* The placement functions.                                                *)
(***************************************************************************)
\* the nine placement keys
Placements == {"cc", "nw", "cn", "ne", "ce", "se", "cs", "sw", "cw"}

\* PySlip.point_placement with 'ne' adding the X offset
point_placement_ne_plus(place, x, y, x_off, y_off, dcw, dch) ==
    LET dcw2 == dcw \div 2
        dch2 == dch \div 2
    IN  IF place = "cc" THEN <<x + dcw2, y + dch2>>
        ELSE IF place = "nw" THEN <<x + x_off, y + y_off>>
        ELSE IF place = "cn" THEN <<x + dcw2, y + y_off>>
        ELSE IF place = "ne" THEN <<x + dcw + x_off, y + y_off>>
        ELSE IF place = "ce" THEN <<x + dcw - x_off, y + dch2>>
        ELSE IF place = "se" THEN <<x + dcw - x_off, y + dch - y_off>>
        ELSE IF place = "cs" THEN <<x + dcw2, y + dch - y_off>>
        ELSE IF place = "sw" THEN <<x + x_off, y + dch - y_off>>
        ELSE IF place = "cw" THEN <<x + x_off, y + dch2>>
        ELSE <<x, y>>

\* PySlip.point_placement
point_placement(place, x, y, x_off, y_off, dcw, dch) ==
    LET dcw2 == dcw \div 2
        dch2 == dch \div 2
    IN  IF place = "cc" THEN <<x + dcw2, y + dch2>>
        ELSE IF place = "nw" THEN <<x + x_off, y + y_off>>
        ELSE IF place = "cn" THEN <<x + dcw2, y + y_off>>
        ELSE IF place = "ne" THEN <<x + (dcw - x_off), y + y_off>>
        ELSE IF place = "ce" THEN <<x + (dcw - x_off), y + dch2>>
        ELSE IF place = "se" THEN <<x + (dcw - x_off), y + (dch - y_off)>>
        ELSE IF place = "cs" THEN <<x + dcw2, y + (dch - y_off)>>
        ELSE IF place = "sw" THEN <<x + x_off, y + (dch - y_off)>>
        ELSE IF place = "cw" THEN <<x + x_off, y + dch2>>
        ELSE <<x, y>>

\* PySlip.extent_placement with 'cs' subtracting half the height
extent_placement_cs_half(place, x, y, x_off, y_off, w, h, dcw, dch) ==
    LET w2 == w \div 2
        h2 == h \div 2
        dcw2 == dcw \div 2
        dch2 == dch \div 2
    IN  IF place = "cc" THEN <<x + (dcw2 - w2), y + (dch2 - h2)>>
        ELSE IF place = "nw" THEN <<x + x_off, y + y_off>>
        ELSE IF place = "cn" THEN <<x + (dcw2 - w2), y + y_off>>
        ELSE IF place = "ne" THEN <<x + (dcw - w - x_off), y + y_off>>
        ELSE IF place = "ce" THEN <<x + (dcw - w - x_off), y + (dch2 - h2)>>
        ELSE IF place = "se" THEN <<x + (dcw - w - x_off), y + (dch - h - y_off)>>
        ELSE IF place = "cs" THEN <<x + (dcw2 - w2), y + (dch - h2 - y_off)>>
        ELSE IF place = "sw" THEN <<x + x_off, y + (dch - h - y_off)>>
        ELSE IF place = "cw" THEN <<x + x_off, y + (dch2 - h2)>>
        ELSE <<x, y>>

\* PySlip.extent_placement
extent_placement(place, x, y, x_off, y_off, w, h, dcw, dch) ==
    LET w2 == w \div 2
        h2 == h \div 2
        dcw2 == dcw \div 2
        dch2 == dch \div 2
    IN  IF place = "cc" THEN <<x + (dcw2 - w2), y + (dch2 - h2)>>
        ELSE IF place = "nw" THEN <<x + x_off, y + y_off>>
        ELSE IF place = "cn" THEN <<x + (dcw2 - w2), y + y_off>>
        ELSE IF place = "ne" THEN <<x + (dcw - w - x_off), y + y_off>>
        ELSE IF place = "ce" THEN <<x + (dcw - w - x_off), y + (dch2 - h2)>>
        ELSE IF place = "se" THEN <<x + (dcw - w - x_off), y + (dch - h - y_off)>>
        ELSE IF place = "cs" THEN <<x + (dcw2 - w2), y + (dch - h - y_off)>>
        ELSE IF place = "sw" THEN <<x + x_off, y + (dch - h - y_off)>>
        ELSE IF place = "cw" THEN <<x + x_off, y + (dch2 - h2)>>
        ELSE <<x, y>>

\* the arguments the placement functions are called with
PlaceCoords == {-3, 0, 4}
PlaceOffsets == {-1, 0, 2}
FrameSizes == {0, 5, 8}
\* the width and height of an extent object
ExtentSizes == {0, 3, 4}

\* a call of point_placement with the arguments place_in
PointPlacement ==
    /\ place_in.fn = "point_placement"
    /\ place_out = None
    /\ place_out' = point_placement(place_in.place, place_in.x, place_in.y,
                                    place_in.x_off, place_in.y_off,
                                    place_in.dcw, place_in.dch)
    /\ UNCHANGED <<place_in, tile_size_x, tile_size_y, view_vars, mouse_vars,
                   layer_vars, drawn, last_op>>

\* a call of extent_placement with the arguments place_in
ExtentPlacement ==
    /\ place_in.fn = "extent_placement"
    /\ place_out = None
    /\ place_out' = extent_placement(place_in.place, place_in.x, place_in.y,
                                     place_in.x_off, place_in.y_off,
                                     place_in.w, place_in.h,
                                     place_in.dcw, place_in.dch)
    /\ UNCHANGED <<place_in, tile_size_x, tile_size_y, view_vars, mouse_vars,
                   layer_vars, drawn, last_op>>

NextPlace == PointPlacement \/ ExtentPlacement

\* the widget of InitLayers, about to call a placement function
InitPlace ==
    /\ InitWidget
    /\ level = MinLevel
    /\ <<view_width, view_height>> = <<3, 2>>
    /\ <<tile_size_x, tile_size_y>> = <<2, 3>>
    /\ \/ place_in \in [fn : {"point_placement"}, place : Placements,
                        x : PlaceCoords, y : PlaceCoords,
                        x_off : PlaceOffsets, y_off : PlaceOffsets,
                        dcw : FrameSizes, dch : FrameSizes]
       \/ place_in \in [fn : {"extent_placement"}, place : Placements,
                        x : PlaceCoords, y : PlaceCoords,
                        x_off : PlaceOffsets, y_off : PlaceOffsets,
                        w : ExtentSizes, h : ExtentSizes,
                        dcw : FrameSizes, dch : FrameSizes]
    /\ place_out = None

SpecPlace == InitPlace /\ [][NextPlace]_vars

(***************************************************************************)
(* Geo and view coordinates.  Tile coordinates and the view coordinates    *)
(* made from them are floats: a float is the exact fraction <<n, d>>,      *)
(* d > 0.                                                                  *)
(***************************************************************************)
Frac(n, d) == <<n, d>>

\* a * k and a - k for a fraction a and an integer k
FracTimes(a, k) == <<a[1] * k, a[2]>>
FracMinus(a, k) == <<a[1] - k * a[2], a[2]>>

\* float(k + a) / m for an integer k, a fraction a and an integer m > 0
FracPlusOver(k, a, m) == <<k * a[2] + a[1], a[2] * m>>

FracEq(a, b) == a[1] * b[2] = b[1] * a[2]

\* int(a)
FracTrunc(a) == Trunc(a[1], a[2])

\* self.tiles.Geo2Tile(geo) at level l: fractional tile coordinates
Geo2Tile(geo, l, tsx, tsy) ==
    <<Frac(geo[1], Scale(l) * tsx), Frac(-geo[2], Scale(l) * tsy)>>

\* self.tiles.Tile2Geo(tile) at level l for fractional tile coordinates
Tile2GeoFrac(tile, l, tsx, tsy) ==
    <<FracTimes(tile[1], tsx * Scale(l)), FracTimes(tile[2], -(tsy * Scale(l)))>>

\* PySlip.Geo2View with the tile coordinates cut to whole pixels
Geo2View_int(v, geo, tsx, tsy) ==
    LET t == Geo2Tile(geo, v.level, tsx, tsy)
    IN  <<Frac(FracTrunc(FracTimes(t[1], tsx)) - v.view_offset_x, 1),
          Frac(FracTrunc(FracTimes(t[2], tsy)) - v.view_offset_y, 1)>>

\* PySlip.Geo2View
Geo2View(v, geo, tsx, tsy) ==
    LET t == Geo2Tile(geo, v.level, tsx, tsy)
    IN  <<FracMinus(FracTimes(t[1], tsx), v.view_offset_x),
          FracMinus(FracTimes(t[2], tsy), v.view_offset_y)>>

\* PySlip.View2Geo for a view position of floats
View2GeoFrac(v, view, tsx, tsy) ==
    LET xtile == FracPlusOver(v.view_offset_x, view[1], tsx)
        ytile == FracPlusOver(v.view_offset_y, view[2], tsy)
    IN  Tile2GeoFrac(<<xtile, ytile>>, v.level, tsx, tsy)

\* the map points converted: the corners and the centre of the map, and
\* points that fall between the pixels of the shallower levels
ConvPts(tsx, tsy) == GeoPts(tsx, tsy) \cup {<<1, -1>>, <<3, -2>>, <<2, -5>>}

\* View2Geo(Geo2View(geo)) in the current viewport
Geo2ViewView2Geo(geo) ==
    LET view == Geo2View(VP, geo, tile_size_x, tile_size_y)
    IN  /\ place_in' = [fn |-> "Geo2View", geo |-> geo]
        /\ place_out' = <<view, View2GeoFrac(VP, view, tile_size_x, tile_size_y)>>
        /\ last_op' = Op("View2Geo", <<>>, TRUE, FALSE)
        /\ UNCHANGED <<tile_size_x, tile_size_y, view_vars, mouse_vars,
                       layer_vars, drawn>>

\* the viewport is resized, zoomed and moved, and positions are converted
NextConv ==
    \/ \E c \in ClientSizes : OnSize(c[1], c[2])
    \/ \E lvl \in Levels : ZoomToLevel(lvl)
    \/ \E geo \in GeoPts(tile_size_x, tile_size_y) : GotoPosition(geo)
    \/ \E geo \in ConvPts(tile_size_x, tile_size_y) : Geo2ViewView2Geo(geo)

SpecConv == Init /\ [][NextConv]_vars


(***************************************************************************)
(* PEX, point and extent: the placed point of an object and its extent     *)
(* (left, right, top, bottom) in view coordinates, each None when off the  *)
(* view.  The objects lie on whole pixels of the current level, so the     *)
(* floats of Geo2View are whole numbers.                                   *)
(***************************************************************************)
\* the number a whole-valued float is
Whole(a) == a[1] \div a[2]

\* PySlip.Geo2View for a geo position on a whole pixel
Geo2ViewPixels(v, geo, tsx, tsy) ==
    LET view == Geo2View(v, geo, tsx, tsy)
    IN  <<Whole(view[1]), Whole(view[2])>>

\* px < 0 or px > self.view_width or py < 0 or py > self.view_height
PointOffView(v, px, py) ==
    px < 0 \/ px > v.view_width \/ py < 0 \/ py > v.view_height

\* erx < 0 or elx > self.view_width or eby < 0 or ety > self.view_height
ExtentOffView(v, extent) ==
    \/ extent[2] < 0
    \/ extent[1] > v.view_width
    \/ extent[4] < 0
    \/ extent[3] > v.view_height

\* the extent of a point and its radius
RadiusExtent(point, radius) ==
    <<point[1] - radius, point[1] + radius, point[2] - radius, point[2] + radius>>

\* PySlip.ViewExtent
ViewExtent(place, view, w, h, x_off, y_off, dcw, dch) ==
    LET tl == extent_placement(place, view[1], view[2], x_off, y_off, w, h, dcw, dch)
    IN  <<tl[1], tl[1] + w, tl[2], tl[2] + h>>

\* PySlip.PexPoint
PexPoint(v, place, geo, x_off, y_off, radius, tsx, tsy) ==
    LET view == Geo2ViewPixels(v, geo, tsx, tsy)
        point == point_placement(place, view[1], view[2], x_off, y_off, 0, 0)
        extent == RadiusExtent(point, radius)
    IN  [point |-> IF PointOffView(v, point[1], point[2]) THEN None ELSE point,
         extent |-> IF ExtentOffView(v, extent) THEN None ELSE extent]

\* PySlip.PexPointView: off the view it sets "view", not "point", to None
PexPointView(v, place, view, x_off, y_off, radius) ==
    LET point == point_placement(place, view[1], view[2], x_off, y_off,
                                 v.view_width, v.view_height)
        extent == RadiusExtent(point, radius)
    IN  [point |-> point,
         extent |-> IF ExtentOffView(v, extent) THEN None ELSE extent]

\* PySlip.PexExtent: the point is the unplaced view position of geo
PexExtent(v, place, geo, x_off, y_off, w, h, tsx, tsy) ==
    LET point == Geo2ViewPixels(v, geo, tsx, tsy)
        extent == ViewExtent(place, point, w, h, x_off, y_off, 0, 0)
    IN  [point |-> IF PointOffView(v, point[1], point[2]) THEN None ELSE point,
         extent |-> IF ExtentOffView(v, extent) THEN None ELSE extent]

\* PySlip.PexExtentView: off the view it sets "view", not "point", to None
PexExtentView(v, place, view, x_off, y_off, w, h) ==
    LET point == point_placement(place, view[1], view[2], 0, 0,
                                 v.view_width, v.view_height)
        extent == ViewExtent(place, view, w, h, x_off, y_off,
                             v.view_width, v.view_height)
    IN  [point |-> point,
         extent |-> IF ExtentOffView(v, extent) THEN None ELSE extent]

\* the positions of the objects, in pixels: off and on the views
PexPts == {<<-1, 1>>, <<0, 0>>, <<2, 2>>, <<5, 1>>}

\* the radius of a point
Radii == {0, 1}

\* the PEX call place_in describes
PexOf(v, in, tsx, tsy) ==
    CASE in.fn = "PexPoint" ->
            PexPoint(v, in.place, in.posn, in.x_off, in.y_off, in.radius, tsx, tsy)
      [] in.fn = "PexPointView" ->
            PexPointView(v, in.place, in.posn, in.x_off, in.y_off, in.radius)
      [] in.fn = "PexExtent" ->
            PexExtent(v, in.place, in.posn, in.x_off, in.y_off, in.w, in.h, tsx, tsy)
      [] in.fn = "PexExtentView" ->
            PexExtentView(v, in.place, in.posn, in.x_off, in.y_off, in.w, in.h)

\* a call of a PEX function with the arguments place_in
Pex ==
    /\ place_in.fn \in {"PexPoint", "PexPointView", "PexExtent", "PexExtentView"}
    /\ place_out = None
    /\ place_out' = <<PexOf(VP, place_in, tile_size_x, tile_size_y)>>
    /\ UNCHANGED <<place_in, tile_size_x, tile_size_y, view_vars, mouse_vars,
                   layer_vars, drawn, last_op>>

NextPex == Pex

\* a widget about to call a PEX function: a geo position for the
\* map-relative functions, a view position for the view-relative ones
InitPex ==
    /\ InitWidget
    /\ \E pos \in PexPts, place \in Placements, x_off \in PlaceOffsets :
          \/ \E radius \in Radii :
                \/ place_in = [fn |-> "PexPoint", place |-> place,
                               posn |-> View2Geo(VP, pos),
                               x_off |-> x_off, y_off |-> 0, radius |-> radius]
                \/ place_in = [fn |-> "PexPointView", place |-> place,
                               posn |-> pos,
                               x_off |-> x_off, y_off |-> 0, radius |-> radius]
          \/ \E w \in ExtentSizes :
                \/ place_in = [fn |-> "PexExtent", place |-> place,
                               posn |-> View2Geo(VP, pos),
                               x_off |-> x_off, y_off |-> 0, w |-> w, h |-> 3]
                \/ place_in = [fn |-> "PexExtentView", place |-> place,
                               posn |-> pos,
                               x_off |-> x_off, y_off |-> 0, w |-> w, h |-> 3]
    /\ place_out = None

SpecPex == InitPex /\ [][NextPex]_vars


(***************************************************************************)
(* PEX for polygons.                                                       *)
(***************************************************************************)
\* min(view, key=...)[k] and max(view, key=...)[k] for a list of points
MinOf(view, k) == CHOOSE m \in {view[i][k] : i \in DOMAIN view} :
                      \A i \in DOMAIN view : m <= view[i][k]
MaxOf(view, k) == CHOOSE m \in {view[i][k] : i \in DOMAIN view} :
                      \A i \in DOMAIN view : m >= view[i][k]

\* the points and the extent of a polygon placed at the view points view:
\* both None unless a vertex is inside the view
PolyResult(v, view) ==
    LET extent == <<MinOf(view, 1), MaxOf(view, 1), MinOf(view, 2), MaxOf(view, 2)>>
    IN  IF \E i \in DOMAIN view :
               /\ view[i][1] >= 0 /\ view[i][1] < v.view_width
               /\ view[i][2] >= 0 /\ view[i][2] < v.view_height
        THEN [point |-> view, extent |-> extent]
        ELSE [point |-> None, extent |-> None]

\* PySlip.PexPoly
PexPoly(v, place, poly, x_off, y_off, tsx, tsy) ==
    PolyResult(v, [i \in DOMAIN poly |->
                      LET view == Geo2ViewPixels(v, poly[i], tsx, tsy)
                      IN  point_placement(place, view[1], view[2],
                                          x_off, y_off, 0, 0)])

\* PySlip.PexPolyView
PexPolyView(v, place, poly, x_off, y_off) ==
    PolyResult(v, [i \in DOMAIN poly |->
                      point_placement(place, poly[i][1], poly[i][2], x_off, y_off,
                                      v.view_width, v.view_height)])


(***************************************************************************)
(* The selection queries on one layer.  A layer handed to a query is a     *)
(* record of map_rel, delta and data; a query returns None or <<sel>>,     *)
(* sel the list of the records selected.                                   *)
(***************************************************************************)
\* _Layer.DefaultDelta
DefaultDelta == 50

\* "dist = 9999999.0  # more than possible"
InitDist == 9999999

\* a click position or box corner in view coordinates: Geo2View of it for
\* a map-relative layer
ToView(v, layer, pt, tsx, tsy) ==
    IF layer.map_rel THEN Geo2ViewPixels(v, pt, tsx, tsy) ELSE pt

\* pex(place, (x, y), x_off, y_off, radius), pex being PexPoint for a
\* map-relative layer and PexPointView otherwise
PointPex(v, layer, r, tsx, tsy) ==
    IF layer.map_rel
    THEN PexPoint(v, r.place, <<r.x, r.y>>, r.x_off, r.y_off, r.radius, tsx, tsy)
    ELSE PexPointView(v, r.place, <<r.x, r.y>>, r.x_off, r.y_off, r.radius)

\* pex(place, (x, y), x_off, y_off, w, h), pex being PexExtent or PexExtentView
ExtentPex(v, layer, r, tsx, tsy) ==
    IF layer.map_rel
    THEN PexExtent(v, r.place, <<r.x, r.y>>, r.x_off, r.y_off, r.w, r.h, tsx, tsy)
    ELSE PexExtentView(v, r.place, <<r.x, r.y>>, r.x_off, r.y_off, r.w, r.h)

\* pex(place, poly, x_off, y_off), pex being PexPoly or PexPolyView
PolyPex(v, layer, r, tsx, tsy) ==
    IF layer.map_rel
    THEN PexPoly(v, r.place, r.poly, r.x_off, r.y_off, tsx, tsy)
    ELSE PexPolyView(v, r.place, r.poly, r.x_off, r.y_off)

\* (vx - xclick)*(vx - xclick) + (vy - yclick)*(vy - yclick)
Dist2(vp, click) ==
    (vp[1] - click[1]) * (vp[1] - click[1]) + (vp[2] - click[2]) * (vp[2] - click[2])

\* the loop of GetPointInLayer from record i on
RECURSIVE NearestScan(_, _, _, _, _, _, _, _)
NearestScan(v, layer, click, tsx, tsy, i, result, dist) ==
    IF i > Len(layer.data)
    THEN [result |-> result, dist |-> dist]
    ELSE LET vp == PointPex(v, layer, layer.data[i], tsx, tsy).point
         IN  IF vp # None /\ Dist2(vp, click) < dist
             THEN NearestScan(v, layer, click, tsx, tsy, i + 1,
                              <<(<<layer.data[i]>>)>>, Dist2(vp, click))
             ELSE NearestScan(v, layer, click, tsx, tsy, i + 1, result, dist)

\* PySlip.GetPointInLayer
GetPointInLayer(v, layer, pt, tsx, tsy) ==
    LET scan == NearestScan(v, layer, ToView(v, layer, pt, tsx, tsy), tsx, tsy,
                            1, None, InitDist)
    IN  IF scan.dist <= layer.delta THEN scan.result ELSE None

\* blx <= vpx <= brx and bby >= vpy >= bty
PointInBox(vp, ll, ur) ==
    /\ ll[1] <= vp[1] /\ vp[1] <= ur[1]
    /\ ll[2] >= vp[2] /\ vp[2] >= ur[2]

\* the extent (left, right, top, bottom) lies in the box
ExtentInBox(e, ll, ur) ==
    /\ ll[1] <= e[1] /\ e[2] <= ur[1]
    /\ ur[2] <= e[3] /\ e[4] <= ll[2]

\* the extent and the box have a point in common
ExtentMeetsBox(e, ll, ur) ==
    /\ e[1] <= ur[1] /\ ll[1] <= e[2]
    /\ e[3] <= ll[2] /\ ur[2] <= e[4]

\* "if selection: return (selection, data, None)", else None
Selected(selection) == IF selection # <<>> THEN <<selection>> ELSE None

\* PySlip.GetBoxSelPointsInLayer
GetBoxSelPointsInLayer(v, layer, ll, ur, tsx, tsy) ==
    LET bl == ToView(v, layer, ll, tsx, tsy)
        br == ToView(v, layer, ur, tsx, tsy)
    IN  Selected(SelectSeq(layer.data,
            LAMBDA r : LET vp == PointPex(v, layer, r, tsx, tsy).point
                       IN  vp # None /\ PointInBox(vp, bl, br)))

\* PySlip.GetBoxSelImagesInLayer
GetBoxSelImagesInLayer(v, layer, ll, ur, tsx, tsy) ==
    LET bl == ToView(v, layer, ll, tsx, tsy)
        br == ToView(v, layer, ur, tsx, tsy)
    IN  Selected(SelectSeq(layer.data,
            LAMBDA r : LET e == ExtentPex(v, layer, r, tsx, tsy).extent
                       IN  e # None /\ ExtentInBox(e, bl, br)))

\* PySlip.GetBoxSelTextsInLayer
GetBoxSelTextsInLayer(v, layer, ll, ur, tsx, tsy) ==
    LET bl == ToView(v, layer, ll, tsx, tsy)
        br == ToView(v, layer, ur, tsx, tsy)
    IN  Selected(SelectSeq(layer.data,
            LAMBDA r : LET vp == PointPex(v, layer, r, tsx, tsy).point
                       IN  vp # None /\ PointInBox(vp, bl, br)))

\* the test GetBoxSelPolygonsInLayer makes of a polygon's extent, the
\* polygon selected when the extent meets the box
PolyBoxTest_meets(e, ll, ur) == ExtentMeetsBox(e, ll, ur)

\* lx <= plx and prx <= rx and ty <= pty and pby <= by
PolyBoxTest(e, ll, ur) == ExtentInBox(e, ll, ur)

\* PySlip.GetBoxSelPolygonsInLayer
GetBoxSelPolygonsInLayer(v, layer, p1, p2, tsx, tsy) ==
    LET bl == ToView(v, layer, p1, tsx, tsy)
        br == ToView(v, layer, p2, tsx, tsy)
    IN  Selected(SelectSeq(layer.data,
            LAMBDA r : LET ex == PolyPex(v, layer, r, tsx, tsy).extent
                       IN  ex # None /\ PolyBoxTest(ex, bl, br)))

\* PySlip.GetImageInLayer: the first image whose extent holds the click
GetImageInLayer(v, layer, point, tsx, tsy) ==
    LET click == ToView(v, layer, point, tsx, tsy)
        hit(r) == LET e == ExtentPex(v, layer, r, tsx, tsy).extent
                  IN  /\ e # None
                      /\ e[1] <= click[1] /\ click[1] <= e[2]
                      /\ e[3] <= click[2] /\ click[2] <= e[4]
        hits == SelectSeq(layer.data, hit)
    IN  IF hits # <<>> THEN <<(<<hits[1]>>)>> ELSE None

\* the loop of GetTextInLayer from record i on: pex is called with the
\* offsets 0, 0
RECURSIVE TextScan(_, _, _, _, _, _, _, _)
TextScan(v, layer, click, tsx, tsy, i, result, dist) ==
    IF i > Len(layer.data)
    THEN [result |-> result, dist |-> dist]
    ELSE LET r == layer.data[i]
             vp == PointPex(v, layer, [r EXCEPT !.x_off = 0, !.y_off = 0],
                            tsx, tsy).point
         IN  IF vp # None /\ Dist2(vp, click) < dist
             THEN TextScan(v, layer, click, tsx, tsy, i + 1,
                           <<(<<r>>)>>, Dist2(vp, click))
             ELSE TextScan(v, layer, click, tsx, tsy, i + 1, result, dist)

\* PySlip.GetTextInLayer
GetTextInLayer(v, layer, point, tsx, tsy) ==
    LET scan == TextScan(v, layer, ToView(v, layer, point, tsx, tsy), tsx, tsy,
                         1, None, InitDist)
    IN  IF scan.dist <= layer.delta THEN scan.result ELSE None

\* a / b for Python 2 ints, b # 0: the floor of the quotient
PyDiv(a, b) == IF b > 0 THEN a \div b ELSE (-a) \div (-b)

\* the loop of point_inside_polygon from l_poly[i] on; xinters is read only
\* in an iteration that has assigned it (y > min and y <= max give p1y # p2y)
RECURSIVE PipScan(_, _, _, _, _, _)
PipScan(point, l_poly, i, p1, inside, xinters) ==
    IF i > Len(l_poly)
    THEN inside
    ELSE LET x == point[1]
             y == point[2]
             p2 == l_poly[i]
             crosses == /\ y > Min(p1[2], p2[2])
                        /\ y <= Max(p1[2], p2[2])
                        /\ x <= Max(p1[1], p2[1])
             xi == IF crosses /\ p1[2] # p2[2]
                   THEN PyDiv((y - p1[2]) * (p2[1] - p1[1]), p2[2] - p1[2]) + p1[1]
                   ELSE xinters
             flips == crosses /\ (p1[1] = p2[1] \/ x <= xi)
         IN  PipScan(point, l_poly, i + 1, p2,
                     IF flips THEN ~inside ELSE inside, xi)

\* point_inside_polygon without the wraparound point
point_inside_polygon_no_wrap(point, poly) ==
    [inside |-> PipScan(point, poly, 1, poly[1], FALSE, None),
     poly |-> poly]

\* point_inside_polygon appending the wraparound point to poly itself
point_inside_polygon_in_place(point, poly) ==
    [inside |-> PipScan(point, Append(poly, poly[1]), 1, poly[1], FALSE, None),
     poly |-> Append(poly, poly[1])]

\* PySlip.point_inside_polygon: the value returned and the list poly as the
\* call leaves it; the wraparound point is appended to a copy
point_inside_polygon(point, poly) ==
    [inside |-> PipScan(point, Append(poly, poly[1]), 1, poly[1], FALSE, None),
     poly |-> poly]

\* PySlip.point_in_poly_geo: placement and offsets are not used
point_in_poly_geo(poly, geo, place, x_off, y_off) ==
    point_inside_polygon(geo, poly)

\* PySlip.point_in_poly_view: the test is made on a new list, view_poly
point_in_poly_view(v, poly, view, place, x_off, y_off) ==
    LET view_poly == [k \in DOMAIN poly |->
                         point_placement(place, poly[k][1], poly[k][2],
                                         x_off, y_off, v.view_width, v.view_height)]
    IN  [inside |-> point_inside_polygon(view, view_poly).inside, poly |-> poly]

\* pip(poly, point, place, x_off, y_off), pip being point_in_poly_geo for a
\* map-relative layer and point_in_poly_view otherwise
Pip(v, layer, r, point) ==
    IF layer.map_rel
    THEN point_in_poly_geo(r.poly, point, r.place, r.x_off, r.y_off)
    ELSE point_in_poly_view(v, r.poly, point, r.place, r.x_off, r.y_off)

\* the number of polygons GetPolygonInLayer tests: up to the first that
\* holds the point
PipCalls(v, layer, point) ==
    LET hits == {i \in DOMAIN layer.data : Pip(v, layer, layer.data[i], point).inside}
    IN  IF hits = {} THEN Len(layer.data)
        ELSE CHOOSE i \in hits : \A j \in hits : i <= j

\* PySlip.GetPolygonInLayer: the first polygon that holds the point
GetPolygonInLayer(v, layer, point) ==
    LET n == PipCalls(v, layer, point)
    IN  IF n > 0 /\ Pip(v, layer, layer.data[n], point).inside
        THEN <<(<<layer.data[n]>>)>> ELSE None

\* layer.data as GetPolygonInLayer leaves it
GetPolygonInLayerData(v, layer, point) ==
    [i \in DOMAIN layer.data |->
        IF i <= PipCalls(v, layer, point)
        THEN [layer.data[i] EXCEPT !.poly = Pip(v, layer, layer.data[i], point).poly]
        ELSE layer.data[i]]

\* PySlip.DrawPointLayer: the records a circle is drawn for
DrawPointLayer(v, layer, tsx, tsy) ==
    SelectSeq(layer.data,
        LAMBDA r : PointPex(v, layer, r, tsx, tsy).extent # None /\ r.radius # 0)

\* the query place_in describes
QueryOf(v, in, tsx, tsy) ==
    CASE in.fn = "DrawPointLayer" ->
            DrawPointLayer(v, in.layer, tsx, tsy)
      [] in.fn = "point_inside_polygon" ->
            point_inside_polygon(in.point, in.poly).inside
      [] in.fn = "GetPointInLayer" ->
            GetPointInLayer(v, in.layer, in.pt, tsx, tsy)
      [] in.fn = "GetBoxSelPointsInLayer" ->
            GetBoxSelPointsInLayer(v, in.layer, in.ll, in.ur, tsx, tsy)
      [] in.fn = "GetBoxSelImagesInLayer" ->
            GetBoxSelImagesInLayer(v, in.layer, in.ll, in.ur, tsx, tsy)
      [] in.fn = "GetBoxSelTextsInLayer" ->
            GetBoxSelTextsInLayer(v, in.layer, in.ll, in.ur, tsx, tsy)
      [] in.fn = "GetBoxSelPolygonsInLayer" ->
            GetBoxSelPolygonsInLayer(v, in.layer, in.ll, in.ur, tsx, tsy)

QueryFns == {"DrawPointLayer", "point_inside_polygon", "GetPointInLayer", "GetBoxSelPointsInLayer", "GetBoxSelImagesInLayer",
             "GetBoxSelTextsInLayer", "GetBoxSelPolygonsInLayer"}

\* a call of a query with the arguments place_in
Query ==
    /\ place_in.fn \in QueryFns
    /\ place_out = None
    /\ place_out' = <<QueryOf(VP, place_in, tile_size_x, tile_size_y)>>
    /\ UNCHANGED <<place_in, tile_size_x, tile_size_y, view_vars, mouse_vars,
                   layer_vars, drawn, last_op>>

NextQuery == Query

\* a position in the frame of a layer, given in view pixels: as OnLeftUp
\* hands it to the query
InFrame(map_rel, pos) == IF map_rel THEN View2Geo(VP, pos) ELSE pos

\* points and texts, in view pixels: left of the view, in it, right of it
PointShapes ==
    {[pos |-> <<-1, 1>>, place |-> "nw", x_off |-> 0, radius |-> 1],
     [pos |-> <<1, 1>>, place |-> "nw", x_off |-> 0, radius |-> 1],
     [pos |-> <<0, 0>>, place |-> "nw", x_off |-> 0, radius |-> 1],
     [pos |-> <<1, 1>>, place |-> "nw", x_off |-> 1, radius |-> 1],
     [pos |-> <<5, 1>>, place |-> "nw", x_off |-> 0, radius |-> 1],
     [pos |-> <<-1, -1>>, place |-> "se", x_off |-> 0, radius |-> 1],
     [pos |-> <<1, 0>>, place |-> "nw", x_off |-> 0, radius |-> 0]}

\* three points at the same distance from (0, 1), the first left of the view
TieShapes ==
    {[pos |-> <<-1, 1>>, place |-> "nw", x_off |-> 0, radius |-> 1],
     [pos |-> <<1, 1>>, place |-> "nw", x_off |-> 0, radius |-> 1],
     [pos |-> <<0, 0>>, place |-> "nw", x_off |-> 0, radius |-> 1]}

\* images, in view pixels
ImageShapes ==
    {[pos |-> <<0, 0>>, place |-> "nw", x_off |-> 0, w |-> 1, h |-> 1],
     [pos |-> <<1, 1>>, place |-> "nw", x_off |-> 0, w |-> 3, h |-> 1],
     [pos |-> <<1, 1>>, place |-> "cc", x_off |-> 0, w |-> 2, h |-> 2],
     [pos |-> <<3, 0>>, place |-> "nw", x_off |-> -1, w |-> 1, h |-> 1]}

\* polygons, in view pixels: inside the boxes, across their edges, off the view
PolyShapes ==
    {[poly |-> <<(<<0, 0>>), (<<1, 0>>), (<<1, 1>>)>>, place |-> "nw", x_off |-> 0],
     [poly |-> <<(<<1, 0>>), (<<3, 1>>), (<<1, 2>>)>>, place |-> "nw", x_off |-> 0],
     [poly |-> <<(<<1, 1>>), (<<2, 1>>), (<<2, 2>>)>>, place |-> "nw", x_off |-> 0],
     [poly |-> <<(<<-2, 0>>), (<<-1, 0>>), (<<-1, 1>>)>>, place |-> "nw", x_off |-> 0]}

\* the lists of one, two or three of the shapes
ListsOf(shapes, n) == UNION {[1..k -> shapes] : k \in 1..n}

\* the layer data of a point or text layer: record i carries the user data i
PointData(map_rel, shapes) ==
    [i \in DOMAIN shapes |->
        [x |-> InFrame(map_rel, shapes[i].pos)[1],
         y |-> InFrame(map_rel, shapes[i].pos)[2],
         place |-> shapes[i].place, radius |-> shapes[i].radius,
         x_off |-> shapes[i].x_off, y_off |-> 0, data |-> i]]

ImageData(map_rel, shapes) ==
    [i \in DOMAIN shapes |->
        [x |-> InFrame(map_rel, shapes[i].pos)[1],
         y |-> InFrame(map_rel, shapes[i].pos)[2],
         w |-> shapes[i].w, h |-> shapes[i].h,
         place |-> shapes[i].place, radius |-> 0,
         x_off |-> shapes[i].x_off, y_off |-> 0, data |-> i]]

PolyData(map_rel, shapes) ==
    [i \in DOMAIN shapes |->
        [poly |-> [k \in DOMAIN shapes[i].poly |->
                      InFrame(map_rel, shapes[i].poly[k])],
         place |-> shapes[i].place,
         x_off |-> shapes[i].x_off, y_off |-> 0, data |-> i]]

\* the click positions, in view pixels
ClickPts == {<<0, 1>>, <<1, 0>>, <<2, 2>>}

\* the selection boxes (lower left, upper right), in view pixels
Boxes == {<<(<<0, 1>>), (<<2, 0>>)>>, <<(<<1, 2>>), (<<2, 1>>)>>,
          <<(<<0, 0>>), (<<0, 0>>)>>}

\* the values of layer.delta
Deltas == {1, DefaultDelta}

\* the polygons and the points handed to point_inside_polygon: the square
\* of side 10 and a triangle; points inside, outside, on edges and on vertices
PipPolys == {<<(<<0, 0>>), (<<10, 0>>), (<<10, 10>>), (<<0, 10>>)>>,
             <<(<<0, 0>>), (<<10, 0>>), (<<5, 7>>)>>}
PipPts == {<<5, 5>>, <<15, 5>>, <<0, 5>>, <<10, 5>>, <<5, 0>>, <<0, 0>>, <<3, 4>>}

\* the window of the end-to-end scenario
ScenarioSizes == {<<60, 60>>}

\* the view-relative point layer of the end-to-end scenario
ScenarioLayer ==
    [map_rel |-> FALSE, delta |-> 100,
     data |-> <<[x |-> 50, y |-> 50, place |-> "nw", radius |-> 3,
                 x_off |-> 5, y_off |-> 5, data |-> 1]>>]

\* a widget about to run a query on a layer
InitQuery ==
    /\ \/ /\ InitWidget
          /\ \E map_rel \in BOOLEAN :
                \/ \E shapes \in ListsOf(PointShapes, 2) \cup [1..3 -> TieShapes],
                      delta \in Deltas, pt \in ClickPts :
                       place_in = [fn |-> "GetPointInLayer",
                                   layer |-> [map_rel |-> map_rel, delta |-> delta,
                                              data |-> PointData(map_rel, shapes)],
                                   pt |-> InFrame(map_rel, pt)]
                \/ \E shapes \in ListsOf(PointShapes, 2) :
                       place_in = [fn |-> "DrawPointLayer",
                                   layer |-> [map_rel |-> map_rel,
                                              delta |-> DefaultDelta,
                                              data |-> PointData(map_rel, shapes)]]
                \/ \E shapes \in ListsOf(PointShapes, 2), box \in Boxes,
                      fn \in {"GetBoxSelPointsInLayer", "GetBoxSelTextsInLayer"} :
                       place_in = [fn |-> fn,
                                   layer |-> [map_rel |-> map_rel,
                                              delta |-> DefaultDelta,
                                              data |-> PointData(map_rel, shapes)],
                                   ll |-> InFrame(map_rel, box[1]),
                                   ur |-> InFrame(map_rel, box[2])]
                \/ \E shapes \in ListsOf(ImageShapes, 2), box \in Boxes :
                       place_in = [fn |-> "GetBoxSelImagesInLayer",
                                   layer |-> [map_rel |-> map_rel,
                                              delta |-> DefaultDelta,
                                              data |-> ImageData(map_rel, shapes)],
                                   ll |-> InFrame(map_rel, box[1]),
                                   ur |-> InFrame(map_rel, box[2])]
                \/ \E shapes \in ListsOf(PolyShapes, 2), box \in Boxes :
                       place_in = [fn |-> "GetBoxSelPolygonsInLayer",
                                   layer |-> [map_rel |-> map_rel,
                                              delta |-> DefaultDelta,
                                              data |-> PolyData(map_rel, shapes)],
                                   ll |-> InFrame(map_rel, box[1]),
                                   ur |-> InFrame(map_rel, box[2])]
       \/ /\ InitWidget
          /\ \E point \in PipPts, poly \in PipPolys :
                place_in = [fn |-> "point_inside_polygon", point |-> point,
                            poly |-> poly]
       \/ /\ InitWidgetOf(ScenarioSizes)
          /\ \E pt \in {<<56, 56>>, <<500, 500>>} :
                place_in = [fn |-> "GetPointInLayer", layer |-> ScenarioLayer,
                            pt |-> pt]
    /\ place_out = None

SpecQuery == InitQuery /\ [][NextQuery]_vars


(***************************************************************************)
(* The selection box: SHIFT down, left button down, drag.                  *)
(***************************************************************************)
\* PySlip.sel_box_canonical with the corners of case 3 (box swept up and to
\* the right) exchanged
sel_box_canonical_swapped(s1, wh) ==
    IF wh[2] >= 0
    THEN IF wh[1] >= 0
         THEN <<s1[1], s1[2] + wh[2], s1[1] + wh[1], s1[2]>>
         ELSE <<s1[1] + wh[1], s1[2] + wh[2], s1[1], s1[2]>>
    ELSE IF wh[1] >= 0
         THEN <<s1[1], s1[2] + wh[2], s1[1] + wh[1], s1[2]>>
         ELSE <<s1[1] + wh[1], s1[2], s1[1], s1[2] + wh[2]>>

\* PySlip.sel_box_canonical for sbox_1 = s1 and (sbox_w, sbox_h) = wh:
\* (ll_corner_vx, ll_corner_vy, tr_corner_vx, tr_corner_vy)
sel_box_canonical(s1, wh) ==
    IF wh[2] >= 0
    THEN IF wh[1] >= 0
         THEN <<s1[1], s1[2] + wh[2], s1[1] + wh[1], s1[2]>>
         ELSE <<s1[1] + wh[1], s1[2] + wh[2], s1[1], s1[2]>>
    ELSE IF wh[1] >= 0
         THEN <<s1[1], s1[2], s1[1] + wh[1], s1[2] + wh[2]>>
         ELSE <<s1[1] + wh[1], s1[2], s1[1], s1[2] + wh[2]>>

\* the call of sel_box_canonical that OnLeftUp makes for a selection box
SelBoxCanonical ==
    /\ is_box_select
    /\ sbox_1 # None
    /\ place_in' = [fn |-> "sel_box_canonical", sbox_1 |-> sbox_1,
                    sbox_wh |-> sbox_wh]
    /\ place_out' = <<sel_box_canonical(sbox_1, sbox_wh)>>
    /\ UNCHANGED <<tile_size_x, tile_size_y, view_vars, mouse_vars,
                   layer_vars, drawn, last_op>>

\* the mouse positions of a box selection: the corners of two rectangles
BoxPts == {<<0, 0>>, <<2, 0>>, <<0, 1>>, <<2, 1>>}

\* a selection box is drawn and canonicalized
NextBox ==
    \/ OnKeyDown
    \/ \E pos \in BoxPts : OnLeftDown(pos)
    \/ \E pos \in BoxPts : OnMove(pos, TRUE)
    \/ SelBoxCanonical

SpecBox == InitLayers /\ [][NextBox]_vars


(***************************************************************************)
(* Selection by the mouse.                                                 *)
(***************************************************************************)
\* the layer l of the store as the queries read it: _Layer.__init__ sets
\* l.delta to DefaultDelta
QLayer(l) == [map_rel |-> l.map_rel, delta |-> DefaultDelta, data |-> l.data]

\* self.layerPSelHandler[l.type](l, pt)
layerPSelHandler(v, l, pt, tsx, tsy) ==
    CASE l.type = "point" -> GetPointInLayer(v, QLayer(l), pt, tsx, tsy)
      [] l.type = "image" -> GetImageInLayer(v, QLayer(l), pt, tsx, tsy)
      [] l.type = "text" -> GetTextInLayer(v, QLayer(l), pt, tsx, tsy)
      [] l.type = "poly" -> GetPolygonInLayer(v, QLayer(l), pt)

\* self.layerBSelHandler[l.type](l, ll, ur)
layerBSelHandler(v, l, ll, ur, tsx, tsy) ==
    CASE l.type = "point" -> GetBoxSelPointsInLayer(v, QLayer(l), ll, ur, tsx, tsy)
      [] l.type = "image" -> GetBoxSelImagesInLayer(v, QLayer(l), ll, ur, tsx, tsy)
      [] l.type = "text" -> GetBoxSelTextsInLayer(v, QLayer(l), ll, ur, tsx, tsy)
      [] l.type = "poly" -> GetBoxSelPolygonsInLayer(v, QLayer(l), ll, ur, tsx, tsy)

\* l.data as the handler of layerPSelHandler leaves it
PSelData(v, l, pt) ==
    IF l.type = "poly" THEN GetPolygonInLayerData(v, QLayer(l), pt) ELSE l.data

\* the events OnLeftUp raises, in the order raised: one for each layer of
\* layer_z_order that is selectable and visible, unless the map was dragged
SelectEvents(pos) ==
    LET ids == SelectSeq(layer_z_order,
                         LAMBDA id : /\ layer_mapping[id].selectable
                                     /\ layer_mapping[id].visible)
        frame(l, view) == IF l.map_rel THEN View2Geo(VP, view) ELSE view
    IN  IF was_dragging THEN <<>>
        ELSE IF is_box_select
        THEN LET box == sel_box_canonical(sbox_1, sbox_wh)
             IN  [k \in DOMAIN ids |->
                    LET l == layer_mapping[ids[k]]
                    IN  [event |-> "EventBoxSelect", layer_id |-> ids[k],
                         selection |->
                             layerBSelHandler(VP, l, frame(l, <<box[1], box[2]>>),
                                              frame(l, <<box[3], box[4]>>),
                                              tile_size_x, tile_size_y)]]
        ELSE [k \in DOMAIN ids |->
                LET l == layer_mapping[ids[k]]
                IN  [event |-> "EventSelect", layer_id |-> ids[k],
                     selection |-> layerPSelHandler(VP, l, frame(l, pos),
                                                    tile_size_x, tile_size_y)]]

\* layer_mapping as the handlers called by OnLeftUp leave it
SelectMapping(pos) ==
    IF was_dragging \/ is_box_select THEN layer_mapping
    ELSE [id \in DOMAIN layer_mapping |->
            LET l == layer_mapping[id]
            IN  IF InList(layer_z_order, id) /\ l.selectable /\ l.visible
                THEN [l EXCEPT !.data =
                         PSelData(VP, l, IF l.map_rel THEN View2Geo(VP, pos) ELSE pos)]
                ELSE l]

\* PySlip.OnLeftUp; the events raised are the argument of the record of the
\* call.  delayed_paint is self.sbox_1_x, or True once an event is raised.
OnLeftUp(pos) ==
    /\ last_drag' = None
    /\ IF ignore_next_up
       THEN /\ ignore_next_up' = FALSE
            /\ UNCHANGED <<was_dragging, is_box_select, sbox_1, drawn,
                           layer_mapping>>
            /\ last_op' = Op("OnLeftUp", <<>>, TRUE, FALSE)
       ELSE /\ was_dragging' = FALSE
            /\ is_box_select' = FALSE
            /\ sbox_1' = None
            /\ UNCHANGED ignore_next_up
            /\ layer_mapping' = SelectMapping(pos)
            /\ IF (sbox_1 # None /\ sbox_1[1] # 0) \/ SelectEvents(pos) # <<>>
               THEN Update(VP) ELSE UNCHANGED drawn
            /\ last_op' = Op("OnLeftUp", SelectEvents(pos), TRUE, FALSE)
    /\ UNCHANGED <<place_vars, tile_size_x, tile_size_y, view_vars,
                   next_layer_id, layer_z_order, added_ids, deleted_ids,
                   sbox_wh, shift_down>>

\* the layers added for selection, their data given in view pixels: a point,
\* an image, a text with an offset, and a triangle followed by a square in
\* either frame
SelectLayers ==
    {[type |-> "point", map_rel |-> TRUE,
      data |-> PointData(TRUE, <<[pos |-> <<1, 1>>, place |-> "nw", x_off |-> 0,
                                  radius |-> 1]>>)],
     [type |-> "image", map_rel |-> FALSE,
      data |-> ImageData(FALSE, <<[pos |-> <<0, 0>>, place |-> "nw", x_off |-> 0,
                                   w |-> 2, h |-> 1]>>)],
     [type |-> "text", map_rel |-> TRUE,
      data |-> PointData(TRUE, <<[pos |-> <<1, 1>>, place |-> "nw", x_off |-> 1,
                                  radius |-> 1]>>)]}
    \cup
    {[type |-> "poly", map_rel |-> m,
      data |-> PolyData(m, <<[poly |-> <<(<<0, 0>>), (<<1, 0>>), (<<1, 1>>)>>,
                              place |-> "nw", x_off |-> 0],
                             [poly |-> <<(<<0, 0>>), (<<2, 0>>), (<<2, 2>>),
                                         (<<0, 2>>)>>,
                              place |-> "nw", x_off |-> 0]>>)]
      : m \in BOOLEAN}

\* a selectable, visible layer is added
AddSelectLayer ==
    \E l \in SelectLayers : AddLayer(l.data, l.map_rel, TRUE, None, TRUE, l.type)

\* a call of the nearest-point query of the layer id, the click at the view
\* position pos
PointQuery(id, pos) ==
    /\ id \in DOMAIN layer_mapping
    /\ LET l == layer_mapping[id]
           pt == InFrame(l.map_rel, pos)
           name == CASE l.type = "point" -> "GetPointInLayer"
                     [] l.type = "image" -> "GetImageInLayer"
                     [] l.type = "text" -> "GetTextInLayer"
                     [] l.type = "poly" -> "GetPolygonInLayer"
       IN  /\ place_in' = [fn |-> name, id |-> id, pt |-> pt]
           /\ place_out' = <<layerPSelHandler(VP, l, pt, tile_size_x, tile_size_y)>>
           /\ layer_mapping' = [layer_mapping EXCEPT ![id].data = PSelData(VP, l, pt)]
           /\ last_op' = Op(name, <<id>>, TRUE, FALSE)
    /\ UNCHANGED <<tile_size_x, tile_size_y, view_vars, mouse_vars, drawn,
                   next_layer_id, layer_z_order, added_ids, deleted_ids>>

\* a call of the box-select query of the layer id, the box given in view
\* pixels; these queries write no attribute and no list
BoxQuery(id, box) ==
    /\ id \in DOMAIN layer_mapping
    /\ LET l == layer_mapping[id]
           ll == InFrame(l.map_rel, box[1])
           ur == InFrame(l.map_rel, box[2])
           name == CASE l.type = "point" -> "GetBoxSelPointsInLayer"
                     [] l.type = "image" -> "GetBoxSelImagesInLayer"
                     [] l.type = "text" -> "GetBoxSelTextsInLayer"
                     [] l.type = "poly" -> "GetBoxSelPolygonsInLayer"
       IN  /\ place_in' = [fn |-> name, id |-> id, ll |-> ll, ur |-> ur]
           /\ place_out' = <<layerBSelHandler(VP, l, ll, ur, tile_size_x, tile_size_y)>>
           /\ last_op' = Op(name, <<id>>, TRUE, FALSE)
    /\ UNCHANGED <<tile_size_x, tile_size_y, view_vars, mouse_vars, drawn,
                   layer_vars>>

\* the clicks of the queries, in view pixels
SelectPts == {<<0, 0>>, <<1, 1>>, <<2, 1>>}

\* layers are added and queried, again and again
NextSelect ==
    \/ AddSelectLayer
    \/ \E id \in LayerIds, pos \in SelectPts : PointQuery(id, pos)
    \/ \E id \in LayerIds, box \in Boxes : BoxQuery(id, box)

SpecSelect == InitLayers /\ [][NextSelect]_vars

\* a widget at the first level to which a map-relative point layer, shown at
\* every level, and a view-relative polygon layer have been added, the
\* polygon layer then pushed to the back
InitMouse ==
    /\ InitViewOf({<<3, 2>>})
    /\ <<tile_size_x, tile_size_y>> = <<2, 3>>
    /\ level = MinLevel
    /\ next_layer_id = 3
    /\ layer_z_order = <<2, 1>>
    /\ \E selectable \in BOOLEAN, visible \in BOOLEAN,
          show_levels \in {AllLevels, <<MaxLevel>>} :
          /\ show_levels = AllLevels \/ (selectable /\ visible)
          /\ layer_mapping =
              <<[data |-> PointData(TRUE, <<[pos |-> <<1, 1>>, place |-> "nw",
                                             x_off |-> 0, radius |-> 1]>>),
                 map_rel |-> TRUE, type |-> "point", visible |-> TRUE,
                 show_levels |-> AllLevels, selectable |-> TRUE],
                [data |-> PolyData(FALSE, <<[poly |-> <<(<<0, 0>>), (<<2, 0>>),
                                                        (<<2, 2>>), (<<0, 2>>)>>,
                                             place |-> "nw", x_off |-> 0]>>),
                 map_rel |-> FALSE, type |-> "poly", visible |-> visible,
                 show_levels |-> show_levels, selectable |-> selectable]>>
    /\ added_ids = <<1, 2>>
    /\ deleted_ids = {}
    /\ last_op = Op("PushLayerToBack", <<2>>, TRUE, FALSE)
    /\ place_in = [fn |-> "none"]
    /\ place_out = None

\* the mouse handlers and the SHIFT key, in any order
NextMouse ==
    \/ OnKeyDown
    \/ OnKeyUp
    \/ \E pos \in MousePts : OnLeftDown(pos)
    \/ \E pos \in MousePts, dragging \in BOOLEAN : OnMove(pos, dragging)
    \/ \E pos \in MousePts : OnLeftUp(pos)
    \/ \E pos \in MousePts : OnLeftDClick(pos)

SpecMouse == InitMouse /\ [][NextMouse]_vars

(***************************************************************************)
(* Painting the layers.                                                    *)
(***************************************************************************)
\* the "draw layers" loop of PySlip.Draw: the ids whose painter is called, in
\* the order of the calls
DrawLayers(z_order, mapping, lvl) ==
    SelectSeq(z_order,
              LAMBDA id : /\ mapping[id].visible
                          /\ InList(mapping[id].show_levels, lvl))

\* a redraw, _BufferedCanvas.Update calling PySlip.Draw; the ids painted are
\* recorded with the call
Redraw ==
    /\ Update(VP)
    /\ last_op' = Op("Draw", DrawLayers(layer_z_order, layer_mapping, level),
                     TRUE, FALSE)
    /\ UNCHANGED <<place_vars, tile_size_x, tile_size_y, view_vars, mouse_vars,
                   layer_vars>>

\* layers are added, hidden, deleted and reordered, the level changes, and
\* the widget is redrawn
NextDraw ==
    \/ \E show_levels \in ShowLevelsInputs :
          AddLayer(<<>>, TRUE, TRUE, show_levels, FALSE, "point")
    \/ \E id \in LayerIds : HideLayer(id)
    \/ \E id \in LayerIds : DeleteLayer(id)
    \/ \E id, top_id \in LayerIds : PlaceLayerBelowLayer(id, top_id)
    \/ \E lvl \in Levels : ZoomToLevel(lvl)
    \/ Redraw

SpecDraw == InitLayers /\ [][NextDraw]_vars

\* the viewport operations and the mouse handlers with the SHIFT key up
NextView ==
    \/ \E c \in ClientSizes : OnSize(c[1], c[2])
    \/ \E lvl \in LevelInputs : ZoomToLevel(lvl)
    \/ \E geo \in GeoPts(tile_size_x, tile_size_y) : GotoPosition(geo)
    \/ \E lvl \in LevelInputs, geo \in GeoPts(tile_size_x, tile_size_y) :
          GotoLevelAndPosition(lvl, geo)
    \/ \E pos \in MousePts : OnLeftDown(pos)
    \/ \E pos \in MousePts, dragging \in BOOLEAN : OnMove(pos, dragging)
    \/ \E pos \in MousePts : OnLeftUp(pos)
    \/ \E pos \in MousePts : OnLeftDClick(pos)
    \/ \E up \in BOOLEAN : OnMouseWheel(up)

SpecView == Init /\ [][NextView]_vars


(***************************************************************************)
(* The whole widget.                                                       *)
(***************************************************************************)
\* the SHIFT key
NextKeys == OnKeyDown \/ OnKeyUp

Next == NextLayers \/ NextLayerAttrs \/ NextView \/ NextKeys

Spec == Init /\ [][Next]_vars


(***************************************************************************)
(* Properties.                                                             *)
(***************************************************************************)
\* ceil(a / b), b > 0
Ceil(a, b) == (a + b - 1) \div b

\* the ids in layer_z_order
ZOrderIds == {layer_z_order[i] : i \in 1..Len(layer_z_order)}

NoDuplicates(list) ==
    \A i, j \in 1..Len(list) : list[i] = list[j] => i = j

\* C1: the keys of layer_mapping and the ids in layer_z_order are the same
\* set, and layer_z_order holds no id twice.
C1_SameIdSet ==
    /\ DOMAIN layer_mapping = ZOrderIds
    /\ NoDuplicates(layer_z_order)

\* the viewport invariant on one axis
AxisInvariant(offset, map, view) ==
    IF map > view
    THEN 0 <= offset /\ offset <= map - view
    ELSE offset = (map - view) \div 2

ViewportInvariant ==
    /\ AxisInvariant(view_offset_x, map_width, view_width)
    /\ AxisInvariant(view_offset_y, map_height, view_height)

\* C2: after every viewport-changing operation the view offset is, on each
\* axis, within [0, map - view] where the map is larger than the view, and
\* the centring offset (map - view) / 2 otherwise.
C2_OffsetClampedOrCentred == ViewportInvariant

\* C3: the stored view limits are the geo coordinates of the view's top-left
\* and bottom-right corners for the current offset, size and level.
C3_ViewLimitsFresh ==
    /\ <<view_llon, view_tlat>> = Tile2Geo(view_offset_x, view_offset_y, level)
    /\ <<view_rlon, view_blat>> = Tile2Geo(view_offset_x + view_width,
                                           view_offset_y + view_height, level)

\* a drag has moved the view away from the map's top-left corner
C3_Witness ==
    /\ last_op.op = "OnMove"
    /\ was_dragging
    /\ view_offset_x > 0
    /\ view_offset_y > 0
    /\ view_llon > 0

\* C4: the ids AddLayer returns are strictly increasing in call order, also
\* across deletions, so no id is returned twice.
C4_IdsIncrease ==
    /\ \A i, j \in 1..Len(added_ids) : i < j => added_ids[i] < added_ids[j]
    /\ \A id \in DOMAIN layer_mapping \cup ZOrderIds : id < next_layer_id

\* a layer was added after an earlier layer had been deleted
C4_Witness ==
    /\ last_op.op = "AddLayer"
    /\ Len(added_ids) >= 2
    /\ \E i \in 1..Len(added_ids) : added_ids[i] \notin ZOrderIds

\* C5: ZoomToLevel(level) returns True and makes level the current level
\* exactly when min_level <= level <= max_level; otherwise it returns False
\* and leaves level, map size and view offsets unchanged, and
\* GotoLevelAndPosition with such a level changes nothing.
C5_ZoomToLevelRange ==
    [][ /\ last_op'.op = "ZoomToLevel" =>
            IF MinLevel <= last_op'.arg[1] /\ last_op'.arg[1] <= MaxLevel
            THEN last_op'.ok /\ level' = last_op'.arg[1]
            ELSE /\ ~last_op'.ok
                 /\ UNCHANGED <<level, map_width, map_height,
                                view_offset_x, view_offset_y>>
        /\ ( /\ last_op'.op = "GotoLevelAndPosition"
             /\ ~(MinLevel <= last_op'.arg[1] /\ last_op'.arg[1] <= MaxLevel) )
           => UNCHANGED <<view_vars, mouse_vars, layer_vars, drawn>>
      ]_vars

\* ZoomToLevel has refused a level above max_level, the view being scrolled
C5_Witness ==
    /\ last_op.op = "ZoomToLevel"
    /\ last_op.arg[1] > MaxLevel
    /\ ~last_op.ok
    /\ level = MaxLevel
    /\ view_offset_x > 0

\* the tile range of the spec on one axis
SpecTileRange(offset, view, size, num_tiles) ==
    Range(Max(0, offset \div size), Min(num_tiles, Ceil(offset + view, size)))

\* C6: on an axis where the map is larger than the view, the tile indices
\* drawn are [floor(offset/tile_size), ceil((offset+view)/tile_size)) clamped
\* to [0, tile_count), for every offset in [0, map - view].
C6_TileRange ==
    /\ (map_width > view_width /\ 0 <= view_offset_x
           /\ view_offset_x <= map_width - view_width)
       => drawn.col_list = SpecTileRange(view_offset_x, view_width, tile_size_x,
                                         NumTilesX(level))
    /\ (map_height > view_height /\ 0 <= view_offset_y
           /\ view_offset_y <= map_height - view_height)
       => drawn.row_list = SpecTileRange(view_offset_y, view_height, tile_size_y,
                                         NumTilesY(level))

\* on one axis: every view pixel on the map lies in a drawn tile, and no
\* drawn tile lies entirely outside the view
AxisCovered(list, pix_start, offset, view, map, size) ==
    /\ \A p \in 0..(view - 1) :
          (0 <= p + offset /\ p + offset < map) =>
              \E k \in 1..Len(list) :
                  /\ list[k] = (p + offset) \div size
                  /\ pix_start + (k - 1) * size <= p
                  /\ p < pix_start + k * size
    /\ \A k \in 1..Len(list) :
          /\ pix_start + (k - 1) * size < view
          /\ pix_start + k * size > 0

\* C7: for every viewport satisfying the viewport invariant the tiles drawn
\* are the minimal cover of the part of the view that lies on the map.
C7_MinimalCover ==
    ViewportInvariant =>
        /\ AxisCovered(drawn.col_list, drawn.x_pix_start, view_offset_x,
                       view_width, map_width, tile_size_x)
        /\ AxisCovered(drawn.row_list, drawn.y_pix_start, view_offset_y,
                       view_height, map_height, tile_size_y)

\* C8: on an axis where the map is larger than the view, the first tile is
\* placed at first_index * tile_size - view_offset, with that axis' tile size.
C8_FirstTilePixel ==
    /\ (map_width > view_width /\ Len(drawn.col_list) > 0)
       => drawn.x_pix_start = drawn.col_list[1] * tile_size_x - view_offset_x
    /\ (map_height > view_height /\ Len(drawn.row_list) > 0)
       => drawn.y_pix_start = drawn.row_list[1] * tile_size_y - view_offset_y

\* the first tile centres a map of size map in a view of size view, whichever
\* way the odd pixel is rounded
Centred(pix_start, map, view) ==
    pix_start \in {(view - map) \div 2, (view - map + 1) \div 2}

\* C9: on an axis where the map is not larger than the view, Draw uses all
\* tile indices 0..tile_count-1 and places the first tile at the offset that
\* centres the map, (view - map) / 2.
C9_SmallMapCentred ==
    /\ map_width <= view_width
       => /\ drawn.col_list = Range(0, NumTilesX(level))
          /\ Centred(drawn.x_pix_start, map_width, view_width)
    /\ map_height <= view_height
       => /\ drawn.row_list = Range(0, NumTilesY(level))
          /\ Centred(drawn.y_pix_start, map_height, view_height)

\* the per-anchor formula of the documentation
AnchorFormula(place, x, y, x_off, y_off, W, H) ==
    CASE place = "nw" -> <<x + x_off, y + y_off>>
      [] place = "cn" -> <<x + W \div 2, y + y_off>>
      [] place = "ne" -> <<x + W - x_off, y + y_off>>
      [] place = "ce" -> <<x + W - x_off, y + H \div 2>>
      [] place = "se" -> <<x + W - x_off, y + H - y_off>>
      [] place = "cs" -> <<x + W \div 2, y + H - y_off>>
      [] place = "sw" -> <<x + x_off, y + H - y_off>>
      [] place = "cw" -> <<x + x_off, y + H \div 2>>
      [] place = "cc" -> <<x + W \div 2, y + H \div 2>>

\* C10: point_placement returns, for each of the nine anchors, the point of
\* the per-anchor formula; 'cc' with a frame of 0 x 0 is the identity.
C10_PointPlacement ==
    (place_in.fn = "point_placement" /\ place_out # None) =>
        /\ place_out = AnchorFormula(place_in.place, place_in.x, place_in.y,
                                     place_in.x_off, place_in.y_off,
                                     place_in.dcw, place_in.dch)
        /\ (place_in.place = "cc" /\ place_in.dcw = 0 /\ place_in.dch = 0)
           => place_out = <<place_in.x, place_in.y>>

\* point_placement has placed a point 'ne' in a frame of odd width
C10_Witness ==
    /\ place_in.fn = "point_placement"
    /\ place_in.place = "ne"
    /\ place_in.dcw = 5
    /\ place_in.x_off = 2
    /\ place_out # None
    /\ place_out[1] = place_in.x + 3

\* what extent_placement subtracts on the X axis: by the column of the anchor
ColumnShift(place, w) ==
    IF place \in {"nw", "cw", "sw"} THEN 0
    ELSE IF place \in {"cn", "cc", "cs"} THEN w \div 2
    ELSE w

\* what extent_placement subtracts on the Y axis: by the row of the anchor
RowShift(place, h) ==
    IF place \in {"nw", "cn", "ne"} THEN 0
    ELSE IF place \in {"cw", "cc", "ce"} THEN h \div 2
    ELSE h

\* C11: for each of the nine anchors extent_placement equals point_placement
\* minus (a, b): a is 0, w/2, w for the west, centre, east column and b is
\* 0, h/2, h for the north, centre, south row.
C11_ExtentPlacement ==
    (place_in.fn = "extent_placement" /\ place_out # None) =>
        LET p == point_placement(place_in.place, place_in.x, place_in.y,
                                 place_in.x_off, place_in.y_off,
                                 place_in.dcw, place_in.dch)
        IN  place_out = <<p[1] - ColumnShift(place_in.place, place_in.w),
                          p[2] - RowShift(place_in.place, place_in.h)>>

\* extent_placement has placed an extent of odd width and even height 'cs'
\* in a frame of odd width
C11_Witness ==
    /\ place_in.fn = "extent_placement"
    /\ place_in.place = "cs"
    /\ place_in.w = 3
    /\ place_in.h = 4
    /\ place_in.dcw = 5
    /\ place_in.dch = 8
    /\ place_out # None
    /\ place_out = <<place_in.x + 1, place_in.y + 4 - place_in.y_off>>

\* C12: View2Geo(Geo2View(p)) = p for every map point p and every viewport
\* (offset, tile size, level), the tile source's Geo2Tile and Tile2Geo being
\* mutual inverses.
C12_RoundTrip ==
    place_in.fn = "Geo2View" =>
        /\ FracEq(place_out[2][1], Frac(place_in.geo[1], 1))
        /\ FracEq(place_out[2][2], Frac(place_in.geo[2], 1))

\* a point between two pixels of a shallower level has been converted in a
\* view scrolled away from the map's origin
C12_Witness ==
    /\ place_in.fn = "Geo2View"
    /\ place_in.geo = <<3, -2>>
    /\ level < MaxLevel
    /\ view_offset_x > 0
    /\ place_out[1][1][1] % place_out[1][1][2] # 0
    /\ place_out[2][1][2] > 1

\* the Add*Layer routines
AddRoutines == {"AddPointLayer", "AddImageLayer", "AddTextLayer",
                "AddPolygonLayer"}

\* one of the nine anchor keywords, in either case, or a 'no placement' value
AnchorOrNoPlacement(placement) ==
    placement \in Placements \cup {"CC", "NW"} \cup {"", "<None>", "<False>"}

\* C13: an Add*Layer call with a record whose placement is neither one of
\* the nine anchor keywords nor a 'no placement' value raises an error and
\* adds no layer: layer_mapping, layer_z_order and next_layer_id are
\* unchanged.
C13_BadPlacementRejected ==
    [][ ( /\ last_op'.op \in AddRoutines
          /\ \E i \in DOMAIN last_op'.arg[2] :
                 ~AnchorOrNoPlacement(last_op'.arg[2][i]) )
        => /\ last_op'.raised
           /\ UNCHANGED <<layer_mapping, layer_z_order, next_layer_id>>
      ]_vars

\* AddPolygonLayer has refused a list whose second record has an unknown
\* placement, a layer being in the store already
C13_Witness ==
    /\ last_op.op = "AddPolygonLayer"
    /\ last_op.arg[2] = <<"nw", "xx">>
    /\ last_op.raised
    /\ Len(layer_z_order) = 1
    /\ next_layer_id = 2

\* the layer-management operations
LayerOps == {"ShowLayer", "HideLayer", "DeleteLayer", "SetLayerShowLevels",
             "SetLayerSelectable", "PushLayerToBack", "PopLayerToFront",
             "PlaceLayerBelowLayer"}

\* C14: a layer-management operation given a layer id that is not in the
\* store (never added, or deleted), the top_id of PlaceLayerBelowLayer
\* included, is rejected with an error and leaves layer_mapping and
\* layer_z_order as they were.
C14_UnknownIdRejected ==
    [][ ( /\ last_op'.op \in LayerOps
          /\ \E i \in DOMAIN last_op'.arg : last_op'.arg[i] \notin ZOrderIds )
        => /\ last_op'.raised
           /\ UNCHANGED <<layer_mapping, layer_z_order>>
      ]_vars

\* the anchor point, in view coordinates, of the object of a PEX call: the
\* placed point of a point object, the hotspot of an extent object
PexAnchor ==
    CASE place_in.fn = "PexPoint" ->
            LET view == Geo2ViewPixels(VP, place_in.posn, tile_size_x, tile_size_y)
            IN  point_placement(place_in.place, view[1], view[2],
                                place_in.x_off, place_in.y_off, 0, 0)
      [] place_in.fn = "PexPointView" ->
            point_placement(place_in.place, place_in.posn[1], place_in.posn[2],
                            place_in.x_off, place_in.y_off, view_width, view_height)
      [] place_in.fn = "PexExtent" ->
            Geo2ViewPixels(VP, place_in.posn, tile_size_x, tile_size_y)
      [] place_in.fn = "PexExtentView" ->
            point_placement(place_in.place, place_in.posn[1], place_in.posn[2],
                            0, 0, view_width, view_height)

\* C15: for PexPoint, PexPointView, PexExtent and PexExtentView the point
\* returned is None whenever the anchor point of the object lies outside
\* the closed rectangle [0, view_width] x [0, view_height].
C15_OffViewPointIsNone ==
    ( /\ place_in.fn \in {"PexPoint", "PexPointView", "PexExtent", "PexExtentView"}
      /\ place_out # None )
    => ( ~( /\ 0 <= PexAnchor[1] /\ PexAnchor[1] <= view_width
            /\ 0 <= PexAnchor[2] /\ PexAnchor[2] <= view_height )
         => place_out[1].point = None )

\* C18: for every start point and every signed width and height
\* sel_box_canonical returns (llx, lly, urx, ury) with llx <= urx and
\* ury <= lly, {llx, urx} = {sbox_1_x, sbox_1_x + sbox_w} and
\* {lly, ury} = {sbox_1_y, sbox_1_y + sbox_h}: the result depends on the
\* rectangle only, not on the corner the drag started from.
C18_SelBoxCanonical ==
    place_in.fn = "sel_box_canonical" =>
        LET x == place_in.sbox_1[1]
            y == place_in.sbox_1[2]
            w == place_in.sbox_wh[1]
            h == place_in.sbox_wh[2]
            box == place_out[1]
        IN  /\ box[1] <= box[3]
            /\ box[4] <= box[2]
            /\ {box[1], box[3]} = {x, x + w}
            /\ {box[2], box[4]} = {y, y + h}
            /\ box = <<Min(x, x + w), Max(y, y + h), Max(x, x + w), Min(y, y + h)>>

\* a box swept up and to the right, from the bottom-left corner of the
\* rectangle, has been canonicalized
C18_Witness ==
    /\ place_in.fn = "sel_box_canonical"
    /\ place_in.sbox_1 = <<0, 1>>
    /\ place_in.sbox_wh = <<2, -1>>
    /\ place_out[1] = <<0, 1, 2, 0>>

\* the view position of a position in the frame of the layer queried
ViewOf(pt) == ToView(VP, place_in.layer, pt, tile_size_x, tile_size_y)

\* the placed point, in view coordinates, of the position pos of record r
\* of the layer queried
PlacedAt(r, pos) ==
    IF place_in.layer.map_rel
    THEN point_placement(r.place, ViewOf(pos)[1], ViewOf(pos)[2],
                         r.x_off, r.y_off, 0, 0)
    ELSE point_placement(r.place, pos[1], pos[2], r.x_off, r.y_off,
                         view_width, view_height)

\* the placed anchor point of a point or text record
PlacedAnchor(r) == PlacedAt(r, <<r.x, r.y>>)

\* the hotspot of an image record: its anchor point, without the offsets
Hotspot(r) == PlacedAt([r EXCEPT !.x_off = 0, !.y_off = 0], <<r.x, r.y>>)

\* p lies in the closed rectangle [0, view_width] x [0, view_height]
OnView(p) ==
    /\ 0 <= p[1] /\ p[1] <= view_width
    /\ 0 <= p[2] /\ p[2] <= view_height

\* the records of the layer queried whose placed anchor point is on the
\* view: those PEX gives a point for
Candidates ==
    {i \in DOMAIN place_in.layer.data : OnView(PlacedAnchor(place_in.layer.data[i]))}

\* the squared distance in view pixels between the click and record i
AnchorDist(i) == Dist2(PlacedAnchor(place_in.layer.data[i]), ViewOf(place_in.pt))

\* the candidates at the minimum distance
Nearest == {i \in Candidates : \A j \in Candidates : AnchorDist(i) <= AnchorDist(j)}

InClosedBox(p, ll, ur) ==
    /\ ll[1] <= p[1] /\ p[1] <= ur[1]
    /\ ur[2] <= p[2] /\ p[2] <= ll[2]

\* C19: in a box-select query on a point, image or text layer, map-relative
\* or view-relative, a record is selected exactly when its anchor point in
\* view coordinates lies within the closed selection box.
C19_BoxSelectAnchors ==
    ( /\ place_in.fn \in {"GetBoxSelPointsInLayer", "GetBoxSelImagesInLayer",
                          "GetBoxSelTextsInLayer"}
      /\ place_out # None )
    => LET anchored ==
               SelectSeq(place_in.layer.data,
                   LAMBDA r :
                       InClosedBox(IF place_in.fn = "GetBoxSelImagesInLayer"
                                   THEN Hotspot(r) ELSE PlacedAnchor(r),
                                   ViewOf(place_in.ll), ViewOf(place_in.ur)))
       IN  place_out[1] = IF anchored # <<>> THEN <<anchored>> ELSE None

\* the placed vertices of a polygon record, in view coordinates
PlacedVertices(r) == [k \in DOMAIN r.poly |-> PlacedAt(r, r.poly[k])]

\* every placed vertex of the polygon lies within the closed selection box:
\* its bounding extent does
PolygonWithinBox(r) ==
    \A k \in DOMAIN r.poly :
        InClosedBox(PlacedVertices(r)[k], ViewOf(place_in.ll), ViewOf(place_in.ur))

\* C20: in a box-select query on a polygon layer a polygon is selected only
\* if its whole bounding extent (min/max of its placed vertices) lies within
\* the box, a polygon that only intersects the box is not selected, and the
\* query returns None when no polygon matches.
C20_PolygonBoxSelect ==
    (place_in.fn = "GetBoxSelPolygonsInLayer" /\ place_out # None) =>
        /\ place_out[1] # None =>
              /\ place_out[1][1] # <<>>
              /\ \A k \in DOMAIN place_out[1][1] :
                     PolygonWithinBox(place_out[1][1][k])
        /\ (\A i \in DOMAIN place_in.layer.data :
                ~PolygonWithinBox(place_in.layer.data[i]))
           => place_out[1] = None

\* of two polygons, the one inside the box has been selected and the one
\* across its edge has not
C20_Witness ==
    /\ place_in.fn = "GetBoxSelPolygonsInLayer"
    /\ place_out # None
    /\ place_out[1] # None
    /\ Len(place_in.layer.data) = 2
    /\ Len(place_out[1][1]) = 1
    /\ place_out[1][1][1] = place_in.layer.data[1]
    /\ ~PolygonWithinBox(place_in.layer.data[2])
    /\ \E k \in DOMAIN place_in.layer.data[2].poly :
          InClosedBox(PlacedVertices(place_in.layer.data[2])[k],
                      ViewOf(place_in.ll), ViewOf(place_in.ur))

\* C21: a point record with radius 0 is neither drawn by DrawPointLayer nor
\* returned by the nearest-point query or the box-select query on its layer,
\* whatever the click or box.
C21_ZeroRadiusSuppressed ==
    place_out # None =>
        /\ place_in.fn = "DrawPointLayer" =>
               \A k \in DOMAIN place_out[1] : place_out[1][k].radius # 0
        /\ ( /\ place_in.fn \in {"GetPointInLayer", "GetBoxSelPointsInLayer"}
             /\ place_out[1] # None )
           => \A k \in DOMAIN place_out[1][1] : place_out[1][1][k].radius # 0

\* the operations that move a layer in the Z order
ReorderOps == {"PushLayerToBack", "PopLayerToFront", "PlaceLayerBelowLayer"}

\* C23: for existing, distinct layer ids PushLayerToBack(id) makes id the
\* first element of layer_z_order, PopLayerToFront(id) makes it the last and
\* PlaceLayerBelowLayer(id, top_id) puts id immediately before top_id; the
\* set of ids in layer_z_order is unchanged, the relative order of all other
\* ids is preserved, and layer_mapping is unchanged.
C23_ReorderKeepsLayers ==
    [][ ( /\ last_op'.op \in ReorderOps
          /\ \A i \in DOMAIN last_op'.arg : last_op'.arg[i] \in ZOrderIds
          /\ last_op'.op = "PlaceLayerBelowLayer" =>
                 last_op'.arg[1] # last_op'.arg[2] )
        => LET id == last_op'.arg[1]
               n == Len(layer_z_order')
           IN  /\ last_op'.ok /\ ~last_op'.raised
               /\ last_op'.op = "PushLayerToBack" => layer_z_order'[1] = id
               /\ last_op'.op = "PopLayerToFront" => layer_z_order'[n] = id
               /\ last_op'.op = "PlaceLayerBelowLayer" =>
                      \E k \in 1..(n - 1) :
                          /\ layer_z_order'[k] = id
                          /\ layer_z_order'[k + 1] = last_op'.arg[2]
               /\ n = Len(layer_z_order)
               /\ {layer_z_order'[k] : k \in 1..n} = ZOrderIds
               /\ Remove(layer_z_order', id) = Remove(layer_z_order, id)
               /\ UNCHANGED layer_mapping
      ]_vars

\* the last of three layers has been placed below the first
C23_Witness ==
    /\ last_op.op = "PlaceLayerBelowLayer"
    /\ last_op.arg = <<3, 1>>
    /\ last_op.ok
    /\ layer_z_order = <<3, 1, 2>>

\* C26: SetLayerShowLevels(id, show_levels) on an existing layer completes
\* without error and sets that layer's show_levels to the given list, or to
\* every level from min_level to max_level when show_levels is None, leaving
\* all other layers and the Z-order unchanged.
C26_SetShowLevelsCompletes ==
    [][ ( /\ last_op'.op = "SetLayerShowLevels"
          /\ last_op'.arg[1] \in ZOrderIds )
        => LET id == last_op'.arg[1]
           IN  /\ ~last_op'.raised
               /\ layer_mapping'[id].show_levels =
                      IF last_op'.show_levels = None
                      THEN Range(MinLevel, MaxLevel + 1)
                      ELSE last_op'.show_levels
               /\ DOMAIN layer_mapping' = DOMAIN layer_mapping
               /\ \A i \in DOMAIN layer_mapping \ {id} :
                      layer_mapping'[i] = layer_mapping[i]
               /\ UNCHANGED layer_z_order
      ]_vars

\* C29: after construction and after any sequence of ZoomToLevel,
\* GotoLevelAndPosition, ZoomToArea, double-click and mouse-wheel events the
\* current level satisfies min_level <= level <= max_level, and map_width
\* and map_height equal the tile count times the tile size of that level.
C29_LevelAndMapSize ==
    /\ MinLevel <= level
    /\ level <= MaxLevel
    /\ map_width = NumTilesX(level) * tile_size_x
    /\ map_height = NumTilesY(level) * tile_size_y

\* a double-click with SHIFT down, to zoom out, has been refused at the
\* first level after the widget had been zoomed in
C29_Witness ==
    /\ last_op.op = "OnLeftDClick"
    /\ shift_down
    /\ ~last_op.ok
    /\ level = MinLevel
    /\ view_offset_x # InitVP(MinLevel, view_width, view_height,
                              tile_size_x, tile_size_y).view_offset_x

\* C24: point_inside_polygon applied to the square [(0,0),(10,0),(10,10),
\* (0,10)] returns True for (5,5) and False for (15,5), and for the
\* left-edge point (0,5) returns the same single value on every call,
\* whatever the state of the widget: the value is False.
C24_SquareContainment ==
    ( /\ place_in.fn = "point_inside_polygon"
      /\ place_out # None
      /\ place_in.poly = <<(<<0, 0>>), (<<10, 0>>), (<<10, 10>>), (<<0, 10>>)>> )
    => /\ place_in.point = <<5, 5>> => place_out[1] = TRUE
       /\ place_in.point = <<15, 5>> => place_out[1] = FALSE
       /\ place_in.point = <<0, 5>> => place_out[1] = FALSE

\* the left-edge point of the square has been tested in a widget that is
\* not at its first level
C24_Witness ==
    /\ place_in.fn = "point_inside_polygon"
    /\ place_in.poly = <<(<<0, 0>>), (<<10, 0>>), (<<10, 10>>), (<<0, 10>>)>>
    /\ place_in.point = <<0, 5>>
    /\ place_out = <<FALSE>>
    /\ level > MinLevel

\* the nearest-point and the box-select queries
SelectQueries == {"GetPointInLayer", "GetImageInLayer", "GetTextInLayer",
                  "GetPolygonInLayer", "GetBoxSelPointsInLayer",
                  "GetBoxSelImagesInLayer", "GetBoxSelTextsInLayer",
                  "GetBoxSelPolygonsInLayer"}

\* C22: every nearest-point and box-select query leaves layer_mapping,
\* layer_z_order, every layer's records (the length of each polygon's vertex
\* list included) and the viewport offset, size and level unchanged, after
\* any number of repeated queries.
C22_QueriesReadOnly ==
    [][ last_op'.op \in SelectQueries
        => UNCHANGED <<layer_mapping, layer_z_order, view_offset_x, view_offset_y,
                       view_width, view_height, level>>
      ]_vars

\* GetPolygonInLayer has tested the triangle of a map-relative layer and
\* selected the square after it, a second layer being in the store
C22_Witness ==
    /\ last_op.op = "GetPolygonInLayer"
    /\ Len(layer_z_order) >= 2
    /\ layer_mapping[place_in.id].map_rel
    /\ place_out[1] # None
    /\ place_out[1][1][1] = layer_mapping[place_in.id].data[2]
    /\ Len(layer_mapping[place_in.id].data[1].poly) = 3

\* C27: a click or box selection handled by OnLeftUp raises a select event
\* only for a layer that is drawn: selectable, visible, and with the current
\* level in its show_levels.
C27_SelectOnlyDrawnLayers ==
    last_op.op = "OnLeftUp"
    => \A k \in DOMAIN last_op.arg :
          LET l == layer_mapping[last_op.arg[k].layer_id]
          IN  /\ l.selectable
              /\ l.visible
              /\ \E i \in DOMAIN l.show_levels : l.show_levels[i] = level

\* C28: every completed OnLeftUp, the one ignored after a double-click
\* included, leaves was_dragging and is_box_select False and sbox_1_x,
\* sbox_1_y, last_drag_x and last_drag_y None.
C28_LeftUpClearsInteraction ==
    last_op.op = "OnLeftUp"
    => /\ ~was_dragging
       /\ ~is_box_select
       /\ sbox_1 = None
       /\ last_drag = None

\* the select events a click at pos raises when every selectable visible
\* layer gets one, in Z order
ClickEvents(pos) ==
    LET ids == SelectSeq(layer_z_order,
                         LAMBDA id : /\ layer_mapping[id].selectable
                                     /\ layer_mapping[id].visible)
    IN  [k \in DOMAIN ids |->
            [event |-> "EventSelect", layer_id |-> ids[k],
             selection |-> layerPSelHandler(VP, layer_mapping[ids[k]],
                                            InFrame(layer_mapping[ids[k]].map_rel, pos),
                                            tile_size_x, tile_size_y)]]

\* C30: an OnLeftUp that ends a map drag raises no select and no box-select
\* event, and an OnLeftUp that directly follows an OnLeftDown without shift
\* raises exactly one select event for each selectable visible layer, in
\* Z order, whatever mouse events happened before that OnLeftDown.
C30_DragOrClickEvents ==
    [][ \A pos \in MousePts :
          OnLeftUp(pos)
          => /\ ( /\ last_op.op = "OnMove"
                  /\ last_op.ok
                  /\ was_dragging
                  /\ last_drag # None
                  /\ ~is_box_select )
                => last_op'.arg = <<>>
             /\ ( /\ last_op.op = "OnLeftDown"
                  /\ ~is_box_select )
                => last_op'.arg = ClickEvents(pos)
      ]_vars

\* the layers added and not deleted
LiveIds == {added_ids[i] : i \in DOMAIN added_ids} \ deleted_ids

\* C25: on every redraw Draw paints exactly the layers that are visible and
\* have the current level in show_levels, each once, in the order of
\* layer_z_order, and paints no layer that has been deleted.
C25_DrawPaintsShownLayers ==
    last_op.op = "Draw"
    => LET painted == last_op.arg
       IN  /\ \A i, j \in DOMAIN painted : painted[i] = painted[j] => i = j
           /\ {painted[i] : i \in DOMAIN painted}
                 = {id \in LiveIds :
                       /\ layer_mapping[id].visible
                       /\ InList(layer_mapping[id].show_levels, level)}
           /\ \A i, j \in DOMAIN painted :
                 i < j => Index(layer_z_order, painted[i])
                            < Index(layer_z_order, painted[j])
           /\ \A i \in DOMAIN painted : painted[i] \notin deleted_ids

=============================================================================
